---- MODULE Spec2Model ----
(***************************************************************************)
(* A model of kevinko/htmlgen: the variable text leaf (TextTagVar) with   *)
(* its parser and expander, the tag tree with its mutators, and the       *)
(* compact and pretty renderers writing to an io.Writer.                  *)
(*                                                                         *)
(* Strings are TLA+ strings; Go's 0-based half-open slices s[a:b] are      *)
(* SubSeq(s, a+1, b).                                                      *)
(***************************************************************************)
EXTENDS Integers, Sequences, FiniteSets, TLC

VARIABLES
    ttv,      \* the TextTagVar of the variable-text specification
    wr,       \* the outcome of the TextTagVar.write call that just returned
    wenv,     \* the optional environment of that call
    nodes,    \* the tags and text leaves, by identity
    creator,  \* history: the tag whose method created each node (0: none)
    crashed,  \* a panic has ended the program
    rr        \* the outcome of the render call that just returned

varVars == <<ttv, wr, wenv>>

treeVars == <<nodes, creator, crashed, rr>>

vars == <<ttv, wr, wenv, nodes, creator, crashed, rr>>

(***************************************************************************)
(* Bounds.                                                                 *)
(***************************************************************************)
MaxTextLen == 3

MaxFailAt == 4

MaxPartial == 1

MaxNodes == 3

MaxChildren == 1

Min(a, b) == IF a < b THEN a ELSE b

(***************************************************************************)
(* Characters.                                                             *)
(***************************************************************************)
LowerChars ==
    {"a","b","c","d","e","f","g","h","i","j","k","l","m",
     "n","o","p","q","r","s","t","u","v","w","x","y","z"}

UpperChars ==
    {"A","B","C","D","E","F","G","H","I","J","K","L","M",
     "N","O","P","Q","R","S","T","U","V","W","X","Y","Z"}

DigitChars == {"0","1","2","3","4","5","6","7","8","9"}

\* [a-zA-Z_]
IsIdentStart(c) == c \in LowerChars \cup UpperChars \cup {"_"}

\* [a-zA-Z0-9_]
IsIdentChar(c) == IsIdentStart(c) \/ c \in DigitChars

CharAt(s, i) == SubSeq(s, i, i)

\* s[from:] for a 0-based from
SliceFrom(s, from) == SubSeq(s, from + 1, Len(s))

\* s[from:to] for 0-based from, to
Slice(s, from, to) == SubSeq(s, from + 1, to)

(***************************************************************************)
(* html.EscapeString: escapes the five characters < > & ' ".              *)
(***************************************************************************)
EscapeChar(c) ==
    CASE c = "&" -> "&amp;"
      [] c = "'" -> "&#39;"
      [] c = "<" -> "&lt;"
      [] c = ">" -> "&gt;"
      [] c = "\"" -> "&#34;"
      [] OTHER -> c

RECURSIVE EscapeString(_)
EscapeString(s) ==
    IF Len(s) = 0 THEN ""
    ELSE EscapeChar(CharAt(s, 1)) \o EscapeString(SliceFrom(s, 1))

(***************************************************************************)
(* The variable parser.                                                    *)
(***************************************************************************)
\* strings.IndexRune(s, '$'): the 0-based index of the first '$', or -1.
RECURSIVE IndexRuneFrom(_, _)
IndexRuneFrom(s, i) ==
    IF i > Len(s) THEN -1
    ELSE IF CharAt(s, i) = "$" THEN i - 1
    ELSE IndexRuneFrom(s, i + 1)

IndexRune(s) == IndexRuneFrom(s, 1)

\* The length of the longest prefix of s[i-1:] made of [a-zA-Z0-9_].
RECURSIVE IdentRunLen(_, _)
IdentRunLen(s, i) ==
    IF i > Len(s) \/ ~IsIdentChar(CharAt(s, i)) THEN 0
    ELSE 1 + IdentRunLen(s, i + 1)

\* A regexp that matches "$" only when an identifier cannot start: the
\* escape "$$" is then not recognised.
reVarFindStringNoEscape(s) ==
    IF Len(s) > 0 /\ IsIdentStart(CharAt(s, 1))
    THEN SubSeq(s, 1, IdentRunLen(s, 1))
    ELSE ""

\* reVar.FindString(s) for reVar = ^(\$|[a-zA-Z_]+[a-zA-Z0-9_]*): the match
\* anchored at the start of s, "" when there is none.
reVarFindString(s) ==
    IF Len(s) = 0 THEN ""
    ELSE IF CharAt(s, 1) = "$" THEN "$"
    ELSE IF IsIdentStart(CharAt(s, 1)) THEN SubSeq(s, 1, IdentRunLen(s, 1))
    ELSE ""

Var(startOffset, length) == [startOffset |-> startOffset, length |-> length]

RECURSIVE parseVarsFrom(_, _)
parseVarsFrom(text, offset) ==
    IF ~(offset < Len(text)) THEN <<>>
    ELSE LET currText == SliceFrom(text, offset)
             index == IndexRune(currText)
         IN IF index = -1 THEN <<>>
            ELSE LET match == reVarFindString(SliceFrom(currText, index + 1))
                     varLen == 1 + Len(match)
                 IN <<Var(offset + index, varLen)>>
                        \o parseVarsFrom(text, offset + index + varLen)

parseVars(text) == parseVarsFrom(text, 0)

(***************************************************************************)
(* The output sink: an io.Writer.  Calls before call number failAt accept  *)
(* the whole string; call number failAt and every later call return an     *)
(* error after accepting at most `partial` bytes (failAt = 0: the sink     *)
(* never fails).  The error value is the number of the failing call, so    *)
(* that two failures are distinguishable.  log records the argument of     *)
(* every call and late counts the calls made after the first failure.      *)
(* stack is the chain of nodes whose write methods are running, outermost  *)
(* first; each log entry carries the stack of its call.                    *)
(***************************************************************************)
NewSink(failAt, partial) ==
    [out |-> "", log |-> <<>>, failAt |-> failAt, partial |-> partial,
     failed |-> FALSE, late |-> 0, stack |-> <<>>]

Sinks == {NewSink(0, 0)}
             \cup {NewSink(f, p) : f \in 1..MaxFailAt, p \in 0..MaxPartial}

\* io.WriteString(writer, s): the sink after the call, the byte count and
\* the error it returns (0 is nil).
WriteString(w, s) ==
    LET k == Len(w.log) + 1
        fails == w.failAt # 0 /\ k >= w.failAt
        acc == IF fails THEN SubSeq(s, 1, Min(w.partial, Len(s))) ELSE s
    IN [w |-> [w EXCEPT !.out = @ \o acc,
                        !.log = Append(@, [s |-> s, stack |-> w.stack]),
                        !.failed = @ \/ fails,
                        !.late = IF w.failed THEN @ + 1 ELSE @],
        n |-> Len(acc),
        err |-> IF fails THEN k ELSE 0]

\* What a write or writePretty method hands back: the sink as the call left
\* it, the returned count and error, and whether the call panicked instead
\* of returning.
Result(w, n, err) == [w |-> w, n |-> n, err |-> err, panic |-> FALSE]

Panic(w) == [w |-> w, n |-> 0, err |-> 0, panic |-> TRUE]

(***************************************************************************)
(* TextTagVar.                                                             *)
(***************************************************************************)
undefinedVarValue == "undefined"

NewTextTagVar(text) ==
    [text |-> text, vars |-> parseVars(text), isUnsafe |-> FALSE]

\* The optional environment argument: optEnv is a sequence of at most one
\* environment; without one, write uses an empty map.
EnvOf(optEnv) == IF Len(optEnv) > 0 THEN optEnv[1] ELSE [k \in {} |-> ""]

\* A lookup that yields the empty string for a missing name.
LookupVarEmpty(env, varName) ==
    IF varName \in DOMAIN env THEN env[varName] ELSE ""

\* value, ok := env[varName]; if !ok { value = undefinedVarValue }
LookupVar(env, varName) ==
    IF varName \in DOMAIN env THEN env[varName] ELSE undefinedVarValue

\* Escaping that ignores the unsafe flag.
EscapeAlways(t, s) == EscapeString(s)

\* if !t.isUnsafe { text = html.EscapeString(text) }
EscapeUnlessUnsafe(t, s) == IF t.isUnsafe THEN s ELSE EscapeString(s)

\* The loop of TextTagVar.write from span number i on, with the loop's
\* offset and count, and the write of the remainder after the last span.
RECURSIVE ttvWriteLoop(_, _, _, _, _, _)
ttvWriteLoop(t, env, w, i, offset, count) ==
    IF i > Len(t.vars)
    THEN IF offset > Len(t.text) THEN Panic(w)
         ELSE LET text == EscapeUnlessUnsafe(t, SliceFrom(t.text, offset))
                  r == WriteString(w, text)
              IN IF r.err # 0 THEN Result(r.w, count, r.err)
                 ELSE Result(r.w, count + r.n, 0)
    ELSE LET v == t.vars[i] IN
         IF offset > v.startOffset \/ v.startOffset > Len(t.text)
         THEN Panic(w)
         ELSE LET text == EscapeUnlessUnsafe(t,
                              Slice(t.text, offset, v.startOffset))
                  r1 == WriteString(w, text)
              IN IF r1.err # 0 THEN Result(r1.w, count, r1.err)
                 ELSE IF v.startOffset + v.length > Len(t.text)
                 THEN Panic(r1.w)
                 ELSE LET varName == SliceFrom(Slice(t.text, v.startOffset,
                                         v.startOffset + v.length), 1)
                          piece == IF varName = "$" THEN "$"
                                   ELSE EscapeUnlessUnsafe(t,
                                            LookupVar(env, varName))
                          r2 == WriteString(r1.w, piece)
                      IN IF r2.err # 0
                         THEN Result(r2.w, count + r1.n, r2.err)
                         ELSE ttvWriteLoop(t, env, r2.w, i + 1,
                                  v.startOffset + v.length,
                                  count + r1.n + r2.n)

ttvWrite(t, w, optEnv) == ttvWriteLoop(t, EnvOf(optEnv), w, 1, 0, 0)

(***************************************************************************)
(* Tags.  A node is a record with the fields of baseTag (tagType, attrs,   *)
(* customAttrs, children, parent, isCacheClean, cacheOpen, hidden), of     *)
(* SelectTag (options) and of the text leaves (text, vars, isUnsafe); kind *)
(* is its Go type, which decides the methods it runs:                      *)
(*   base *baseTag, body *BodyTag, select *SelectTag, option *OptionTag,   *)
(*   html *htmlTag, null *nullTag, comment *commentTag, single *singleTag, *)
(*   input *InputTag, text *TextTag, textvar *TextTagVar.                  *)
(* children and parent hold node identities; 0 is nil.  The maps of a      *)
(* commentTag and of a nullTag are nil maps.                               *)
(***************************************************************************)
NodeIds == 1..MaxNodes

kAttrChecked == 7

kAttrClass == 8

kAttrId == 21

kAttrOnkeydown == 38

kAttrOnload == 37

kAttrReadonly == 51

kAttrRowspan == 50

kAttrSelected == 56

kAttrValue == 64

kTagTypeA == 0

kTagTypeBody == 5

kTagTypeBr == 6

kTagTypeDiv == 14

kTagTypeH1 == 21

kTagTypeHtml == 29

kTagTypeInput == 32

kTagTypeOption == 40

kTagTypeP == 41

kTagTypeSelect == 45

kTagTypeNull == 63

kIndentSpace == 2

attrStringMap(keyId) ==
    CASE keyId = kAttrChecked -> "checked"
      [] keyId = kAttrClass -> "class"
      [] keyId = kAttrId -> "id"
      [] keyId = kAttrOnkeydown -> "onkeydown"
      [] keyId = kAttrOnload -> "onload"
      [] keyId = kAttrReadonly -> "readonly"
      [] keyId = kAttrRowspan -> "rowspan"
      [] keyId = kAttrSelected -> "selected"
      [] keyId = kAttrValue -> "value"

tagTypeStringMap(tagType) ==
    CASE tagType = kTagTypeA -> "a"
      [] tagType = kTagTypeBody -> "body"
      [] tagType = kTagTypeBr -> "br"
      [] tagType = kTagTypeDiv -> "div"
      [] tagType = kTagTypeH1 -> "h1"
      [] tagType = kTagTypeHtml -> "html"
      [] tagType = kTagTypeInput -> "input"
      [] tagType = kTagTypeOption -> "option"
      [] tagType = kTagTypeP -> "p"
      [] tagType = kTagTypeSelect -> "select"

EmptyMap == [k \in {} |-> ""]

MapSet(m, k, v) == [x \in DOMAIN m \cup {k} |-> IF x = k THEN v ELSE m[x]]

MapDelete(m, k) == [x \in DOMAIN m \ {k} |-> m[x]]

NodeOf(kind, tagType) ==
    [kind |-> kind, tagType |-> tagType, attrs |-> EmptyMap,
     customAttrs |-> EmptyMap, children |-> <<>>, parent |-> 0,
     isCacheClean |-> FALSE, cacheOpen |-> "", hidden |-> FALSE,
     options |-> <<>>, text |-> "", vars |-> <<>>, isUnsafe |-> FALSE]

NoNode == NodeOf("none", 0)

TagKinds ==
    {"base", "body", "select", "option", "html", "null", "comment",
     "single", "input"}

TextKinds == {"text", "textvar"}

IsTag(t) == t.kind \in TagKinds

\* attrs and customAttrs were never made: writing to them panics.
HasNilMaps(t) == t.kind \in {"comment", "null"}

newBaseTag(tagType) == NodeOf("base", tagType)

newSingleTag(tagType) == NodeOf("single", tagType)

newNullTag == NodeOf("null", kTagTypeNull)

newCommentTag == NodeOf("comment", kTagTypeA)

newHtmlTag == NodeOf("html", kTagTypeHtml)

newTextTag(text) == [NodeOf("text", 0) EXCEPT !.text = text]

newTextTagVarNode(t) ==
    [NodeOf("textvar", 0) EXCEPT !.text = t.text, !.vars = t.vars,
                                 !.isUnsafe = t.isUnsafe]

\* The TextTagVar held in a node.
TTVOf(t) == [text |-> t.text, vars |-> t.vars, isUnsafe |-> t.isUnsafe]

Range(seq) == {seq[i] : i \in 1..Len(seq)}

RECURSIVE Concat(_)
Concat(strs) ==
    IF Len(strs) = 0 THEN "" ELSE Head(strs) \o Concat(Tail(strs))

RECURSIVE Spaces(_)
Spaces(n) == IF n <= 0 THEN "" ELSE " " \o Spaces(n - 1)

(***************************************************************************)
(* Go ranges over a map in an unspecified order.  A render call draws one  *)
(* order of the attribute keys and one of the custom keys in use; every    *)
(* map is then ranged in that order.                                       *)
(***************************************************************************)
Perms(S) ==
    {f \in [1..Cardinality(S) -> S] : \A i, j \in DOMAIN f : f[i] = f[j] => i = j}

UsedAttrs(ns) == UNION {DOMAIN ns[id].attrs : id \in DOMAIN ns}

UsedCustom(ns) == UNION {DOMAIN ns[id].customAttrs : id \in DOMAIN ns}

KeyOrders(ns) ==
    {[attrs |-> a, custom |-> c] :
        a \in Perms(UsedAttrs(ns)), c \in Perms(UsedCustom(ns))}

\* The keys of map m in the order perm.
RangeKeys(m, perm) == SelectSeq(perm, LAMBDA k : k \in DOMAIN m)

(***************************************************************************)
(* Compact rendering.  A result carries the nodes (their caches may have   *)
(* been filled), the sink, the returned count and error, and whether the   *)
(* call panicked or recursed without end instead of returning.             *)
(***************************************************************************)
Ret(ns, w, n, err) ==
    [nodes |-> ns, w |-> w, n |-> n, err |-> err, panic |-> FALSE,
     overflow |-> FALSE]

Overflow(ns, w) ==
    [nodes |-> ns, w |-> w, n |-> 0, err |-> 0, panic |-> FALSE,
     overflow |-> TRUE]

FromLeaf(ns, x) ==
    [nodes |-> ns, w |-> x.w, n |-> x.n, err |-> x.err, panic |-> x.panic,
     overflow |-> FALSE]

Stopped(r) == r.err # 0 \/ r.panic \/ r.overflow

\* A chain of writes that goes on after a failed write.
ThenIgnoringErrors(r, s) ==
    IF r.panic \/ r.overflow THEN r
    ELSE LET x == WriteString(r.w, s)
         IN [r EXCEPT !.w = x.w, !.n = @ + x.n,
                      !.err = IF r.err # 0 THEN r.err ELSE x.err]

\* if count, err := io.WriteString(writer, s); err != nil { return n, err }
\* else { n += count }, after the steps that led to r.
Then(r, s) ==
    IF Stopped(r) THEN r
    ELSE LET x == WriteString(r.w, s)
         IN IF x.err # 0 THEN [r EXCEPT !.w = x.w, !.err = x.err]
            ELSE [r EXCEPT !.w = x.w, !.n = @ + x.n]

\* if count, err := callee(...); err != nil { return n, err } else
\* { n += count }, where c is what the callee returned.
ThenCall(r, c) ==
    IF c.panic \/ c.overflow THEN c
    ELSE IF c.err # 0
    THEN [r EXCEPT !.nodes = c.nodes, !.w = c.w, !.err = c.err]
    ELSE [r EXCEPT !.nodes = c.nodes, !.w = c.w, !.n = @ + c.n]

\* ' key="value"' for the attributes, the known ones then the custom ones,
\* each map in its range order.
\* An attribute written without the quotes around its value.
AttrStringUnquoted(key, value) == " " \o key \o "=" \o value

AttrString(key, value) == " " \o key \o "=\"" \o value \o "\""

OpenTagLead(t, ord) ==
    LET ks == RangeKeys(t.attrs, ord.attrs)
        cs == RangeKeys(t.customAttrs, ord.custom)
    IN "<" \o tagTypeStringMap(t.tagType)
           \o Concat([i \in 1..Len(ks) |->
                         AttrString(attrStringMap(ks[i]), t.attrs[ks[i]])])
           \o Concat([i \in 1..Len(cs) |->
                         AttrString(cs[i], t.customAttrs[cs[i]])])

renderCacheOpen(t, ord) ==
    IF t.kind \in {"single", "input"} THEN OpenTagLead(t, ord) \o " />"
    ELSE OpenTagLead(t, ord) \o ">"

\* A cache that is marked clean without being rebuilt.
FillCacheStale(ns, id, ord) == [ns EXCEPT ![id].isCacheClean = TRUE]

\* if !t.isCacheClean { t.cacheOpen = t.renderCacheOpen(tagStr);
\* t.isCacheClean = true }
FillCache(ns, id, ord) ==
    IF ns[id].isCacheClean THEN ns
    ELSE [ns EXCEPT ![id].cacheOpen = renderCacheOpen(ns[id], ord),
                    ![id].isCacheClean = TRUE]

\* The depth of nested write calls that is followed.  A tree without a
\* cycle is at most MaxNodes deep, and an element writes its open tag
\* before it descends, so that on a cycle of elements a sink that fails has
\* failed by this depth: only a render that would descend without end runs
\* out of it.
StackLimit == MaxFailAt

RECURSIVE tagWrite(_, _, _, _, _, _)

\* for _, childTag := range t.children { ... childTag.write ... }, from
\* child number i on.
RECURSIVE writeChildrenFrom(_, _, _, _, _, _)
writeChildrenFrom(r, id, i, optEnv, ord, fuel) ==
    IF Stopped(r) \/ i > Len(r.nodes[id].children) THEN r
    ELSE writeChildrenFrom(
             ThenCall(r, tagWrite(r.nodes, r.w, r.nodes[id].children[i],
                                  optEnv, ord, fuel)),
             id, i + 1, optEnv, ord, fuel)

baseTagWrite(ns, w, id, optEnv, ord, fuel) ==
    IF ns[id].hidden THEN Ret(ns, w, 0, 0)
    ELSE LET ns1 == FillCache(ns, id, ord)
             tagStr == tagTypeStringMap(ns[id].tagType)
             opened == Then(Ret(ns1, w, 0, 0), ns1[id].cacheOpen)
             inner == writeChildrenFrom(opened, id, 1, optEnv, ord, fuel)
         IN Then(Then(Then(inner, "</"), tagStr), ">")

commentTagWrite(ns, w, id, optEnv, ord, fuel) ==
    LET opened == Then(Ret(ns, w, 0, 0), "<!-- ")
        inner == writeChildrenFrom(opened, id, 1, optEnv, ord, fuel)
    IN Then(inner, " -->")

htmlTagWrite(ns, w, id, optEnv, ord, fuel) ==
    LET r == Then(Ret(ns, w, 0, 0), "<!DOCTYPE html>")
    IN IF Stopped(r) THEN r
       ELSE ThenCall(r, baseTagWrite(r.nodes, r.w, id, optEnv, ord, fuel))

nullTagWrite(ns, w, id, optEnv, ord, fuel) ==
    writeChildrenFrom(Ret(ns, w, 0, 0), id, 1, optEnv, ord, fuel)

\* return io.WriteString(writer, t.cacheOpen)
singleTagWrite(ns, w, id, ord) ==
    LET ns1 == FillCache(ns, id, ord)
        x == WriteString(w, ns1[id].cacheOpen)
    IN Ret(ns1, x.w, x.n, x.err)

\* return io.WriteString(writer, t.text)
textTagWrite(ns, w, id) ==
    LET x == WriteString(w, ns[id].text) IN Ret(ns, x.w, x.n, x.err)

\* childTag.write(writer, env...) on the node's own type; fuel is the call
\* depth left before the stack is exhausted.
tagWrite(ns, w, id, optEnv, ord, fuel) ==
    IF fuel = 0 THEN Overflow(ns, w)
    ELSE LET kind == ns[id].kind
             w1 == [w EXCEPT !.stack = Append(@, id)]
             r == CASE kind = "text" -> textTagWrite(ns, w1, id)
                    [] kind = "textvar" ->
                         FromLeaf(ns, ttvWrite(TTVOf(ns[id]), w1, optEnv))
                    [] kind \in {"single", "input"} ->
                         singleTagWrite(ns, w1, id, ord)
                    [] kind = "comment" ->
                         commentTagWrite(ns, w1, id, optEnv, ord, fuel - 1)
                    [] kind = "html" ->
                         htmlTagWrite(ns, w1, id, optEnv, ord, fuel - 1)
                    [] kind = "null" ->
                         nullTagWrite(ns, w1, id, optEnv, ord, fuel - 1)
                    [] OTHER ->
                         baseTagWrite(ns, w1, id, optEnv, ord, fuel - 1)
         IN [r EXCEPT !.w.stack = w.stack]

\* Write(writer, root, env...)
Write(ns, w, root, optEnv, ord) ==
    tagWrite(ns, w, root, optEnv, ord, StackLimit)

(***************************************************************************)
(* Pretty rendering.                                                       *)
(***************************************************************************)
\* The bytes of the attribute names in increasing order.
ByteOrder == "-0123456789_abcdefghijklmnopqrstuvwxyz"

RECURSIVE ByteRankFrom(_, _)
ByteRankFrom(c, i) ==
    IF i > Len(ByteOrder) \/ CharAt(ByteOrder, i) = c THEN i
    ELSE ByteRankFrom(c, i + 1)

ByteRank(c) == ByteRankFrom(c, 1)

\* a < b for strings, as sort.Strings compares them.
RECURSIVE StringLess(_, _)
StringLess(a, b) ==
    IF Len(b) = 0 THEN FALSE
    ELSE IF Len(a) = 0 THEN TRUE
    ELSE IF CharAt(a, 1) # CharAt(b, 1)
    THEN ByteRank(CharAt(a, 1)) < ByteRank(CharAt(b, 1))
    ELSE StringLess(SliceFrom(a, 1), SliceFrom(b, 1))

\* writeIndent(writer, indent) writes strings.Repeat(" ", indent).
\* An indentation that is always empty.
IndentStringNone(indent) == ""

IndentString(indent) == Spaces(indent)

\* writeKeyValue: key, =", value and " in four writes.
writeKeyValue(ns, w, key, value) ==
    Then(Then(Then(Then(Ret(ns, w, 0, 0), key), "=\""), value), "\"")

\* The loop over the sorted keys: a space, then the key and its value.
RECURSIVE writeSortedFrom(_, _, _, _)
writeSortedFrom(r, keys, values, i) ==
    IF Stopped(r) \/ i > Len(keys) THEN r
    ELSE LET sp == Then(r, " ")
         IN writeSortedFrom(
                IF Stopped(sp) THEN sp
                ELSE ThenCall(sp, writeKeyValue(sp.nodes, sp.w, keys[i],
                                                values[i])),
                keys, values, i + 1)

\* sort.Ints(sortedKeys) without sorting: the keys as they were ranged over.
sortIntsNot(keys) == keys

\* sort.Ints(sortedKeys)
sortInts(keys) == SortSeq(keys, LAMBDA a, b : a < b)

\* sort.Strings(sortedKeys)
sortStrings(keys) == SortSeq(keys, StringLess)

\* The known keys, ranged over in the order ord and sorted by ordinal, when
\* there are no custom attributes; otherwise the names of the known keys
\* and the custom keys, each ranged over in the order ord and sorted as
\* strings, each with the value the merged map holds for it.
writeOpenTagLeadSorted(ns, w, id, ord) ==
    LET t == ns[id]
        lead == Then(Then(Ret(ns, w, 0, 0), "<"), tagTypeStringMap(t.tagType))
    IN IF Cardinality(DOMAIN t.customAttrs) = 0
       THEN LET sortedKeys == sortInts(RangeKeys(t.attrs, ord.attrs))
            IN writeSortedFrom(lead,
                   [i \in 1..Len(sortedKeys) |-> attrStringMap(sortedKeys[i])],
                   [i \in 1..Len(sortedKeys) |-> t.attrs[sortedKeys[i]]], 1)
       ELSE LET known == RangeKeys(t.attrs, ord.attrs)
                names == [i \in 1..Len(known) |-> attrStringMap(known[i])]
                merged(key) ==
                    IF key \in DOMAIN t.customAttrs THEN t.customAttrs[key]
                    ELSE t.attrs[CHOOSE k \in DOMAIN t.attrs :
                                     attrStringMap(k) = key]
                sortedKeys ==
                    sortStrings(names
                                    \o RangeKeys(t.customAttrs, ord.custom))
            IN writeSortedFrom(lead, sortedKeys,
                   [i \in 1..Len(sortedKeys) |-> merged(sortedKeys[i])], 1)

\* childTag.isHidden()
isHidden(t) == IF IsTag(t) THEN t.hidden ELSE FALSE

RECURSIVE tagWritePretty(_, _, _, _, _, _, _)

\* baseTag.writePretty's loop: hidden children are skipped, the others
\* follow a newline.
RECURSIVE basePrettyChildrenFrom(_, _, _, _, _, _, _)
basePrettyChildrenFrom(r, id, i, newIndent, optEnv, ord, fuel) ==
    IF Stopped(r) \/ i > Len(r.nodes[id].children) THEN r
    ELSE LET child == r.nodes[id].children[i]
             nl == Then(r, "\n")
         IN basePrettyChildrenFrom(
                IF isHidden(r.nodes[child]) THEN r
                ELSE IF Stopped(nl) THEN nl
                ELSE ThenCall(nl, tagWritePretty(nl.nodes, nl.w, child,
                                                 newIndent, optEnv, ord, fuel)),
                id, i + 1, newIndent, optEnv, ord, fuel)

baseTagWritePretty(ns, w, id, indent, optEnv, ord, fuel) ==
    IF ns[id].hidden THEN Ret(ns, w, 0, 0)
    ELSE LET tagStr == tagTypeStringMap(ns[id].tagType)
             ind == Then(Ret(ns, w, 0, 0), IndentString(indent))
             lead == IF Stopped(ind) THEN ind
                     ELSE ThenCall(ind, writeOpenTagLeadSorted(ns, ind.w, id, ord))
             opened == Then(lead, ">")
             inner == basePrettyChildrenFrom(opened, id, 1,
                          indent + kIndentSpace, optEnv, ord, fuel)
             sep == IF Len(ns[id].children) > 0
                    THEN Then(Then(inner, "\n"), IndentString(indent))
                    ELSE inner
         IN Then(sep, "</" \o tagStr \o ">")

\* commentTag.writePretty's loop: a newline and the child, hidden or not.
RECURSIVE commentPrettyChildrenFrom(_, _, _, _, _, _, _)
commentPrettyChildrenFrom(r, id, i, newIndent, optEnv, ord, fuel) ==
    IF Stopped(r) \/ i > Len(r.nodes[id].children) THEN r
    ELSE LET nl == Then(r, "\n")
         IN commentPrettyChildrenFrom(
                IF Stopped(nl) THEN nl
                ELSE ThenCall(nl, tagWritePretty(nl.nodes, nl.w,
                                      r.nodes[id].children[i], newIndent,
                                      optEnv, ord, fuel)),
                id, i + 1, newIndent, optEnv, ord, fuel)

commentTagWritePretty(ns, w, id, indent, optEnv, ord, fuel) ==
    LET opened == Then(Then(Ret(ns, w, 0, 0), IndentString(indent)), "<!--")
        inner == commentPrettyChildrenFrom(opened, id, 1,
                     indent + kIndentSpace, optEnv, ord, fuel)
        sep == IF Len(ns[id].children) > 0
               THEN Then(Then(inner, "\n"), IndentString(indent))
               ELSE Then(inner, " ")
    IN Then(sep, "-->")

htmlTagWritePretty(ns, w, id, indent, optEnv, ord, fuel) ==
    LET r == Then(Then(Ret(ns, w, 0, 0), IndentString(indent)),
                  "<!DOCTYPE html>\n")
    IN IF Stopped(r) THEN r
       ELSE ThenCall(r, baseTagWritePretty(r.nodes, r.w, id, indent, optEnv, ord,
                                           fuel))

\* nullTag.writePretty's loop: every child at indent 0, a newline after
\* each but the last.
RECURSIVE nullPrettyChildrenFrom(_, _, _, _, _, _)
nullPrettyChildrenFrom(r, id, i, optEnv, ord, fuel) ==
    IF Stopped(r) \/ i > Len(r.nodes[id].children) THEN r
    ELSE LET c == ThenCall(r, tagWritePretty(r.nodes, r.w,
                                  r.nodes[id].children[i], 0, optEnv, ord, fuel))
         IN nullPrettyChildrenFrom(
                IF i = Len(r.nodes[id].children) THEN c ELSE Then(c, "\n"),
                id, i + 1, optEnv, ord, fuel)

nullTagWritePretty(ns, w, id, indent, optEnv, ord, fuel) ==
    nullPrettyChildrenFrom(Ret(ns, w, 0, 0), id, 1, optEnv, ord, fuel)

singleTagWritePretty(ns, w, id, indent, ord) ==
    LET ind == Then(Ret(ns, w, 0, 0), IndentString(indent))
        lead == IF Stopped(ind) THEN ind
                ELSE ThenCall(ind, writeOpenTagLeadSorted(ns, ind.w, id, ord))
    IN Then(lead, " />")

textTagWritePretty(ns, w, id, indent) ==
    LET ind == Then(Ret(ns, w, 0, 0), IndentString(indent))
    IN IF Stopped(ind) THEN ind
       ELSE ThenCall(ind, textTagWrite(ns, ind.w, id))

ttvWritePretty(ns, w, id, indent, optEnv) ==
    LET ind == Then(Ret(ns, w, 0, 0), IndentString(indent))
    IN IF Stopped(ind) THEN ind
       ELSE ThenCall(ind, FromLeaf(ns, ttvWrite(TTVOf(ns[id]), ind.w, optEnv)))

\* childTag.writePretty(writer, indent, env...) on the node's own type.
tagWritePretty(ns, w, id, indent, optEnv, ord, fuel) ==
    IF fuel = 0 THEN Overflow(ns, w)
    ELSE LET kind == ns[id].kind
             w1 == [w EXCEPT !.stack = Append(@, id)]
             r == CASE kind = "text" -> textTagWritePretty(ns, w1, id, indent)
                    [] kind = "textvar" ->
                         ttvWritePretty(ns, w1, id, indent, optEnv)
                    [] kind \in {"single", "input"} ->
                         singleTagWritePretty(ns, w1, id, indent, ord)
                    [] kind = "comment" ->
                         commentTagWritePretty(ns, w1, id, indent, optEnv, ord,
                                               fuel - 1)
                    [] kind = "html" ->
                         htmlTagWritePretty(ns, w1, id, indent, optEnv, ord,
                                            fuel - 1)
                    [] kind = "null" ->
                         nullTagWritePretty(ns, w1, id, indent, optEnv, ord,
                                            fuel - 1)
                    [] OTHER ->
                         baseTagWritePretty(ns, w1, id, indent, optEnv, ord,
                                            fuel - 1)
         IN [r EXCEPT !.w.stack = w.stack]

\* WritePretty(writer, root, env...)
WritePretty(ns, w, root, optEnv, ord) ==
    tagWritePretty(ns, w, root, 0, optEnv, ord, StackLimit)

(***************************************************************************)
(* Inputs of the variable-text specification.                              *)
(***************************************************************************)
Alphabet == {"$", "a", "0", "&"}

RECURSIVE TextsUpTo(_)
TextsUpTo(n) ==
    IF n = 0 THEN {""}
    ELSE LET shorter == TextsUpTo(n - 1)
         IN shorter \cup {c \o s : c \in Alphabet, s \in shorter}

ExampleTexts ==
    {"01234 $worl $ $$ $", "$$$bar?", "hello, $name", "$0bar", "$bar0",
     "a_1$_b2$", "<$name>"}

Texts == TextsUpTo(MaxTextLen) \cup ExampleTexts

\* The texts given to SetText and to the appending TV.
EditTexts == TextsUpTo(1) \cup {"$a", "$$"}

Envs ==
    {[k \in {} |-> ""],
     [k \in {"a"} |-> "&"],
     [k \in {"", "a"} |-> IF k = "" THEN "e" ELSE "x<"],
     [k \in {"name", "bar"} |-> IF k = "name" THEN "foo&bar" ELSE "apple"]}

OptEnvs == {<<>>} \cup {<<e>> : e \in Envs}

NoWrite == [done |-> FALSE]

(***************************************************************************)
(* The variable-text specification: one TextTagVar and the outcome of the  *)
(* write call that has just returned (wr, with its environment wenv),      *)
(* which the caller drops before its next call.                            *)
(***************************************************************************)
InitVar ==
    /\ ttv = NewTextTagVar("")
    /\ wr = NoWrite
    /\ wenv = <<>>
    /\ nodes = [id \in NodeIds |-> NoNode]
    /\ creator = [id \in NodeIds |-> 0]
    /\ crashed = FALSE
    /\ rr = NoWrite

NewTTV ==
    /\ ~wr.done
    /\ \E text \in Texts : ttv' = NewTextTagVar(text)
    /\ UNCHANGED <<wr, wenv, treeVars>>

TTVSetText ==
    /\ ~wr.done
    /\ \E text \in EditTexts : ttv' = [ttv EXCEPT !.text = text]
    /\ UNCHANGED <<wr, wenv, treeVars>>

TTVSetUnsafe ==
    /\ ~wr.done
    /\ \E isUnsafe \in BOOLEAN : ttv' = [ttv EXCEPT !.isUnsafe = isUnsafe]
    /\ UNCHANGED <<wr, wenv, treeVars>>

\* TextTagVar.TV(text...): appends the first text, if any.
TTVAppend ==
    /\ ~wr.done
    /\ \E text \in {<<>>} \cup {<<s>> : s \in EditTexts} :
          /\ Len(text) > 0 => Len(ttv.text) + Len(text[1]) <= MaxTextLen
          /\ ttv' = IF Len(text) = 0 THEN ttv
                    ELSE [ttv EXCEPT !.text = @ \o text[1]]
    /\ UNCHANGED <<wr, wenv, treeVars>>

TTVWrite ==
    /\ ~wr.done
    /\ \E w \in Sinks, optEnv \in OptEnvs :
          /\ wr' = [done |-> TRUE, res |-> ttvWrite(ttv, w, optEnv)]
          /\ wenv' = optEnv
    /\ UNCHANGED <<ttv, treeVars>>

Forget ==
    /\ wr.done
    /\ wr' = NoWrite
    /\ wenv' = <<>>
    /\ UNCHANGED <<ttv, treeVars>>

NextVar ==
    \/ NewTTV
    \/ TTVSetText
    \/ TTVSetUnsafe
    \/ TTVAppend
    \/ TTVWrite
    \/ Forget

SpecVar == InitVar /\ [][NextVar]_vars

(***************************************************************************)
(* The tree specification: up to MaxNodes nodes made by NewRoot, NewNull,  *)
(* the detached factory and the child-creating methods of a tag, changed   *)
(* by the tree mutators, Hide and SetId, and rendered by Write and         *)
(* WritePretty.  rr holds the outcome of the render call that has just     *)
(* returned, with the nodes as they were before it; the caller drops it    *)
(* before its next call.                                                   *)
(***************************************************************************)
InitTree ==
    /\ ttv = NewTextTagVar("")
    /\ wr = NoWrite
    /\ wenv = <<>>
    /\ nodes = [id \in NodeIds |-> NoNode]
    /\ creator = [id \in NodeIds |-> 0]
    /\ crashed = FALSE
    /\ rr = NoWrite

Running == ~crashed /\ ~rr.done

FreeIds == {id \in NodeIds : nodes[id].kind = "none"}

TagIds == {id \in NodeIds : IsTag(nodes[id])}

TextIds == {id \in NodeIds : nodes[id].kind = "text"}

\* The identity of the next node made.
NextId == CHOOSE id \in FreeIds : \A other \in FreeIds : id <= other

\* The methods of the factory htmlGen that the model uses, and the tag each
\* returns.
TagMethods == {"Div", "Br", "Comment", "Select", "Body", "Input", "Option"}

htmlGenTag(m) ==
    CASE m = "Div" -> newBaseTag(kTagTypeDiv)
      [] m = "Br" -> newSingleTag(kTagTypeBr)
      [] m = "Comment" -> newCommentTag
      [] m = "Select" -> NodeOf("select", kTagTypeSelect)
      [] m = "Body" -> NodeOf("body", kTagTypeBody)
      [] m = "Input" -> NodeOf("input", kTagTypeInput)
      [] m = "Option" -> NodeOf("option", kTagTypeOption)

\* htmlGen.T(text...): the first text, escaped.
htmlGenT(text) ==
    newTextTag(IF Len(text) > 0 THEN EscapeString(text[1]) ELSE "")

\* htmlGen.TV(text...)
htmlGenTV(text) ==
    newTextTagVarNode(NewTextTagVar(IF Len(text) > 0 THEN text[1] ELSE ""))

TArgs == {<<"a<">>}

TVArgs == {<<"$a">>}

TreeOptEnvs == {<<[k \in {"a"} |-> "v&"]>>}

\* The sinks a tree is rendered to: one that works and one for each call
\* that can be the first to fail.
TreeSinks == {NewSink(f, 0) : f \in 0..MaxFailAt}

\* The methods that attach through addChild, which records the parent.
AddChildMethods == {"Div", "Br", "Comment", "Select"}

NewRoot ==
    /\ Running
    /\ FreeIds # {}
    /\ nodes' = [nodes EXCEPT ![NextId] = newHtmlTag]
    /\ UNCHANGED <<varVars, creator, crashed, rr>>

NewNull ==
    /\ Running
    /\ FreeIds # {}
    /\ nodes' = [nodes EXCEPT ![NextId] = newNullTag]
    /\ UNCHANGED <<varVars, creator, crashed, rr>>

\* H.Div(), H.T(...): a detached node from the factory.
FactoryNode ==
    /\ Running
    /\ FreeIds # {}
    /\ \E n \in {htmlGenTag("Div")} \cup {htmlGenT(text) : text \in TArgs} :
          nodes' = [nodes EXCEPT ![NextId] = n]
    /\ UNCHANGED <<varVars, creator, crashed, rr>>

\* The parent after t.children = append(t.children, newTag), and for a
\* SelectTag's Option also t.options = append(t.options, newTag).
Appended(t, id, toOptions) ==
    [t EXCEPT !.children = Append(@, id),
              !.options = IF toOptions THEN Append(@, id) ELSE @]

\* p.Div(), p.Br(), p.Comment(), p.Select(), p.Body(), p.Input(),
\* p.Option(): a new tag appended to p's children; addChild also sets its
\* parent.
ChildTag(p, m) ==
    /\ Running
    /\ FreeIds # {}
    /\ p \in TagIds
    /\ LET id == NextId
           made == htmlGenTag(m)
           child == IF m \in AddChildMethods THEN [made EXCEPT !.parent = p]
                    ELSE made
       IN nodes' = [nodes EXCEPT
                       ![p] = Appended(@, id,
                                  m = "Option" /\ nodes[p].kind = "select"),
                       ![id] = child]
    /\ creator' = [creator EXCEPT ![NextId] = p]
    /\ UNCHANGED <<varVars, crashed, rr>>

\* p.T(text...), p.TV(text...): a new text leaf with parent p.
ChildText(p) ==
    /\ Running
    /\ FreeIds # {}
    /\ p \in TagIds
    /\ \E leaf \in {htmlGenT(text) : text \in TArgs}
                       \cup {htmlGenTV(text) : text \in TVArgs} :
          nodes' = [nodes EXCEPT ![p] = Appended(@, NextId, FALSE),
                                 ![NextId] = [leaf EXCEPT !.parent = p]]
    /\ creator' = [creator EXCEPT ![NextId] = p]
    /\ UNCHANGED <<varVars, crashed, rr>>

AddChild(p, c) ==
    /\ Running
    /\ p \in TagIds
    /\ c \in TagIds
    /\ Len(nodes[p].children) < MaxChildren
    /\ nodes' = [nodes EXCEPT ![p] = Appended(@, c, FALSE)]
    /\ UNCHANGED <<varVars, creator, crashed, rr>>

AddChildText(p, c) ==
    /\ Running
    /\ p \in TagIds
    /\ c \in TextIds
    /\ Len(nodes[p].children) < MaxChildren
    /\ nodes' = [nodes EXCEPT ![p] = Appended(@, c, FALSE)]
    /\ UNCHANGED <<varVars, creator, crashed, rr>>

\* baseTag.RemoveChildren; a singleTag keeps what it has and a SelectTag
\* also empties its options.
RemoveChildren(p) ==
    /\ Running
    /\ p \in TagIds
    /\ nodes' = [nodes EXCEPT ![p] =
                    IF @.kind \in {"single", "input"} THEN @
                    ELSE IF @.kind = "select"
                    THEN [@ EXCEPT !.children = <<>>, !.options = <<>>]
                    ELSE [@ EXCEPT !.children = <<>>]]
    /\ UNCHANGED <<varVars, creator, crashed, rr>>

\* The element of children that equals the receiver t of RemoveParent: t is
\* the *baseTag inside tag c, and an interface value equals it only when it
\* holds that pointer with the type *baseTag.
IsReceiver(ns, entry, c) == entry = c /\ ns[c].kind = "base"

\* The last index ii of children whose element is the receiver, or 0.
LastIndexOf(ns, children, c) ==
    LET hits == {ii \in 1..Len(children) : IsReceiver(ns, children[ii], c)}
    IN IF hits = {} THEN 0 ELSE CHOOSE ii \in hits : \A jj \in hits : jj <= ii

Splice(children, ii) ==
    SubSeq(children, 1, ii - 1) \o SubSeq(children, ii + 1, Len(children))

\* baseTag.RemoveParent: with a nil parent, parent.getChildren() panics.
RemoveParent(c) ==
    /\ Running
    /\ c \in TagIds
    /\ IF nodes[c].parent = 0
       THEN crashed' = TRUE /\ UNCHANGED nodes
       ELSE LET p == nodes[c].parent
                ii == LastIndexOf(nodes, nodes[p].children, c)
                spliced == IF ii = 0 THEN nodes
                           ELSE [nodes EXCEPT ![p].children = Splice(@, ii)]
            IN /\ nodes' = [spliced EXCEPT ![c].parent = 0]
               /\ UNCHANGED crashed
    /\ UNCHANGED <<varVars, creator, rr>>

Hide(n) ==
    /\ Running
    /\ n \in TagIds
    /\ \E hidden \in BOOLEAN : nodes' = [nodes EXCEPT ![n].hidden = hidden]
    /\ UNCHANGED <<varVars, creator, crashed, rr>>

\* setAttr(keyId, value): an empty value deletes the key; storing into a
\* nil map panics.
setAttr(t, keyId, value) ==
    [(IF Len(value) = 0 THEN [t EXCEPT !.attrs = MapDelete(@, keyId)]
      ELSE [t EXCEPT !.attrs = MapSet(@, keyId, value)])
        EXCEPT !.isCacheClean = FALSE]

IdValues == {"", "x"}

SetId(n) ==
    /\ Running
    /\ n \in TagIds
    /\ \E id \in IdValues :
          IF HasNilMaps(nodes[n]) /\ Len(id) > 0
          THEN crashed' = TRUE /\ UNCHANGED nodes
          ELSE /\ nodes' = [nodes EXCEPT ![n] = setAttr(@, kAttrId, id)]
               /\ UNCHANGED crashed
    /\ UNCHANGED <<varVars, creator, rr>>

\* What a render call leaves: the nodes with the caches it filled, and no
\* running program when it panicked or exhausted the stack.
Rendered(pretty, root, w, optEnv, before, res) ==
    /\ rr' = [done |-> TRUE, pretty |-> pretty, root |-> root, sink |-> w,
              optEnv |-> optEnv, before |-> before, res |-> res]
    /\ nodes' = res.nodes
    /\ crashed' = (res.panic \/ res.overflow)

\* Write(writer, root, env...) on the top node of a tree.
DoWrite(root) ==
    /\ Running
    /\ root \in TagIds
    /\ nodes[root].parent = 0
    /\ \E w \in TreeSinks, optEnv \in TreeOptEnvs, ord \in KeyOrders(nodes) :
          Rendered(FALSE, root, w, optEnv, nodes,
                   Write(nodes, w, root, optEnv, ord))
    /\ UNCHANGED <<varVars, creator>>

\* WritePretty(writer, root, env...) on the top node of a tree.
DoWritePretty(root) ==
    /\ Running
    /\ root \in TagIds
    /\ nodes[root].parent = 0
    /\ \E w \in TreeSinks, optEnv \in TreeOptEnvs, ord \in KeyOrders(nodes) :
          Rendered(TRUE, root, w, optEnv, nodes,
                   WritePretty(nodes, w, root, optEnv, ord))
    /\ UNCHANGED <<varVars, creator>>

ForgetRender ==
    /\ rr.done
    /\ ~crashed
    /\ rr' = NoWrite
    /\ UNCHANGED <<varVars, nodes, creator, crashed>>

\* The tree specification proper: construction and the tree mutators.
NextTree ==
    \/ NewRoot
    \/ NewNull
    \/ FactoryNode
    \/ \E p \in NodeIds, m \in TagMethods : ChildTag(p, m)
    \/ \E p \in NodeIds : ChildText(p)
    \/ \E p, c \in NodeIds : AddChild(p, c)
    \/ \E p, c \in NodeIds : AddChildText(p, c)
    \/ \E p \in NodeIds : RemoveChildren(p)
    \/ \E c \in NodeIds : RemoveParent(c)

SpecTree == InitTree /\ [][NextTree]_vars

\* The render specification: trees grown from a root by the child-creating
\* methods of the kinds that render differently, with Hide, SetId and the
\* two render calls.
RenderMethods == {"Div", "Br", "Comment"}

NextRender ==
    \/ NewRoot
    \/ NewNull
    \/ \E p \in NodeIds, m \in RenderMethods : ChildTag(p, m)
    \/ \E p \in NodeIds : ChildText(p)
    \/ \E n \in NodeIds : Hide(n)
    \/ \E n \in NodeIds : SetId(n)
    \/ \E root \in NodeIds : DoWrite(root)
    \/ \E root \in NodeIds : DoWritePretty(root)
    \/ ForgetRender

SpecRender == InitTree /\ [][NextRender]_vars

(***************************************************************************)
(* The attribute specification: one detached tag from the factory, its     *)
(* attribute and class mutators, and compact renders.                      *)
(***************************************************************************)
MaxAttrNodes == 1

MaxClassLen == 4

AttrMethods == {"Div", "Input", "Option"}

ClassArgs == {<<>>, <<"c", "d">>}

CustomKeys == {"k"}

CustomValues == {"v"}

ValueArgs == {"", "x"}

\* The fields of InputOptions and of OptionOptions that the model sets; the
\* others keep their zero values.
InputOptionsArgs == [Checked : BOOLEAN, Value : ValueArgs]

OptionOptionsArgs == [Selected : BOOLEAN, Value : ValueArgs]

\* strings.Join(strs, sep)
RECURSIVE Join(_, _)
Join(strs, sep) ==
    IF Len(strs) = 0 THEN ""
    ELSE IF Len(strs) = 1 THEN strs[1]
    ELSE strs[1] \o sep \o Join(Tail(strs), sep)

\* m[k] of a Go map: the zero value for a missing key.
MapGet(m, k) == IF k \in DOMAIN m THEN m[k] ELSE ""

\* H.Div(), H.Input(""), H.Option(): a detached tag from the factory.
FactoryTag(m) ==
    /\ Running
    /\ Cardinality(NodeIds \ FreeIds) < MaxAttrNodes
    /\ nodes' = [nodes EXCEPT ![NextId] = htmlGenTag(m)]
    /\ UNCHANGED <<varVars, creator, crashed, rr>>

\* A mutator whose stores also reach the maps of the node that made n.
MutatedShared(n, stores, t) ==
    /\ nodes' = IF creator[n] = 0 THEN [nodes EXCEPT ![n] = t]
                ELSE [nodes EXCEPT ![n] = t,
                                   ![creator[n]].attrs = t.attrs,
                                   ![creator[n]].customAttrs = t.customAttrs,
                                   ![creator[n]].isCacheClean = FALSE]
    /\ UNCHANGED <<varVars, creator, crashed, rr>>

\* A mutator leaves node n as t; one that stores into a nil map panics.
Mutated(n, stores, t) ==
    /\ IF stores /\ HasNilMaps(nodes[n])
       THEN crashed' = TRUE /\ UNCHANGED nodes
       ELSE nodes' = [nodes EXCEPT ![n] = t] /\ UNCHANGED crashed
    /\ UNCHANGED <<varVars, creator, rr>>

SetClasses(t, classes) ==
    [(IF Len(classes) = 0 THEN [t EXCEPT !.attrs = MapDelete(@, kAttrClass)]
      ELSE [t EXCEPT !.attrs = MapSet(@, kAttrClass, Join(classes, " "))])
        EXCEPT !.isCacheClean = FALSE]

SetClass(n) ==
    /\ Running
    /\ n \in TagIds
    /\ \E classes \in ClassArgs :
          Mutated(n, Len(classes) > 0, SetClasses(nodes[n], classes))

\* AddClasses that replaces the old value.
AddClassesReplacing(t, classes) ==
    IF Len(classes) = 0 THEN t
    ELSE [t EXCEPT !.attrs = MapSet(@, kAttrClass, Join(classes, " ")),
                   !.isCacheClean = FALSE]

AddClasses(t, classes) ==
    IF Len(classes) = 0 THEN t
    ELSE LET classesStr == Join(classes, " ")
             oldClassesStr == MapGet(t.attrs, kAttrClass)
         IN [t EXCEPT !.attrs =
                         IF Len(oldClassesStr) > 0
                         THEN MapSet(@, kAttrClass,
                                     oldClassesStr \o " " \o classesStr)
                         ELSE MapSet(@, kAttrClass, classesStr),
                      !.isCacheClean = FALSE]

AddClass(n) ==
    /\ Running
    /\ n \in TagIds
    /\ Len(MapGet(nodes[n].attrs, kAttrClass)) < MaxClassLen
    /\ \E classes \in ClassArgs :
          Mutated(n, Len(classes) > 0, AddClasses(nodes[n], classes))

\* baseTag.SetAttribute(key, value) with a key among keys and a value among
\* values: t.customAttrs[key] = value; t.isCacheClean = false
SetAttributeAmong(n, keys, values) ==
    /\ Running
    /\ n \in TagIds
    /\ \E key \in keys, value \in values :
          Mutated(n, TRUE,
                  [nodes[n] EXCEPT !.customAttrs = MapSet(@, key, value),
                                   !.isCacheClean = FALSE])

SetAttributeOf(n, values) == SetAttributeAmong(n, CustomKeys, values)

SetAttribute(n) == SetAttributeOf(n, CustomValues)

\* SetAttribute with a value or with the empty string.
SetAttributeOrClear(n) == SetAttributeOf(n, CustomValues \cup {""})

RemoveAttribute(n) ==
    /\ Running
    /\ n \in TagIds
    /\ \E key \in CustomKeys :
          Mutated(n, FALSE,
                  [nodes[n] EXCEPT !.customAttrs = MapDelete(@, key),
                                   !.isCacheClean = FALSE])

\* InputTag.SetValue
SetValue(n) ==
    /\ Running
    /\ n \in TagIds
    /\ nodes[n].kind = "input"
    /\ \E v \in ValueArgs :
          Mutated(n, Len(v) > 0, setAttr(nodes[n], kAttrValue, v))

\* t.attrs[keyId] = "" when on, delete(t.attrs, keyId) otherwise; then
\* t.isCacheClean = false.
SetFlag(t, keyId, on) ==
    [t EXCEPT !.attrs = IF on THEN MapSet(@, keyId, "")
                        ELSE MapDelete(@, keyId),
              !.isCacheClean = FALSE]

\* CheckedInputTag.SetChecked, on the InputTag it wraps.
SetChecked(n) ==
    /\ Running
    /\ n \in TagIds
    /\ nodes[n].kind = "input"
    /\ \E checked \in BOOLEAN :
          Mutated(n, checked, SetFlag(nodes[n], kAttrChecked, checked))

\* OptionTag.SetSelected
SetSelected(n) ==
    /\ Running
    /\ n \in TagIds
    /\ nodes[n].kind = "option"
    /\ \E selected \in BOOLEAN :
          Mutated(n, selected, SetFlag(nodes[n], kAttrSelected, selected))

\* if flag { t.attrs[keyId] = "" }; if len(value) > 0 { t.attrs[kAttrValue]
\* = value }; t.isCacheClean = false
OptionsSet(t, keyId, flag, value) ==
    LET flagged == IF flag THEN MapSet(t.attrs, keyId, "") ELSE t.attrs
    IN [t EXCEPT !.attrs = IF Len(value) > 0
                           THEN MapSet(flagged, kAttrValue, value)
                           ELSE flagged,
                 !.isCacheClean = FALSE]

\* InputTag.SetOptions and OptionTag.SetOptions
SetOptions(n) ==
    /\ Running
    /\ n \in TagIds
    /\ \/ /\ nodes[n].kind = "input"
          /\ \E o \in InputOptionsArgs :
                Mutated(n, o.Checked \/ Len(o.Value) > 0,
                        OptionsSet(nodes[n], kAttrChecked, o.Checked,
                                   o.Value))
       \/ /\ nodes[n].kind = "option"
          /\ \E o \in OptionOptionsArgs :
                Mutated(n, o.Selected \/ Len(o.Value) > 0,
                        OptionsSet(nodes[n], kAttrSelected, o.Selected,
                                   o.Value))

\* The attributes that ResetOptions deletes, among those of the model.
ResetKeys(kind) ==
    IF kind = "input" THEN {kAttrChecked, kAttrReadonly, kAttrValue}
    ELSE {kAttrSelected, kAttrValue}

\* InputTag.ResetOptions and OptionTag.ResetOptions: the deletes, and
\* nothing else.
ResetOptions(n) ==
    /\ Running
    /\ n \in TagIds
    /\ nodes[n].kind \in {"input", "option"}
    /\ Mutated(n, FALSE,
               [nodes[n] EXCEPT !.attrs =
                   [k \in DOMAIN @ \ ResetKeys(nodes[n].kind) |-> @[k]]])

NextAttr ==
    \/ \E m \in AttrMethods : FactoryTag(m)
    \/ \E n \in NodeIds : SetId(n)
    \/ \E n \in NodeIds : SetClass(n)
    \/ \E n \in NodeIds : AddClass(n)
    \/ \E n \in NodeIds : SetAttribute(n)
    \/ \E n \in NodeIds : RemoveAttribute(n)
    \/ \E n \in NodeIds : SetValue(n)
    \/ \E n \in NodeIds : SetChecked(n)
    \/ \E n \in NodeIds : SetSelected(n)
    \/ \E n \in NodeIds : SetOptions(n)
    \/ \E n \in NodeIds : ResetOptions(n)
    \/ \E root \in NodeIds : DoWrite(root)
    \/ ForgetRender

SpecAttr == InitTree /\ [][NextAttr]_vars

(***************************************************************************)
(* The sorted-attribute specification: one detached tag from the factory,  *)
(* its attribute mutators, and pretty renders.                             *)
(***************************************************************************)
NextSorted ==
    \/ \E m \in AttrMethods : FactoryTag(m)
    \/ \E n \in NodeIds : SetId(n)
    \/ \E n \in NodeIds : SetClass(n)
    \/ \E n \in NodeIds : SetAttribute(n)
    \/ \E n \in NodeIds : RemoveAttribute(n)
    \/ \E n \in NodeIds : SetValue(n)
    \/ \E n \in NodeIds : SetChecked(n)
    \/ \E n \in NodeIds : SetSelected(n)
    \/ \E root \in NodeIds : DoWritePretty(root)
    \/ ForgetRender

SpecSorted == InitTree /\ [][NextSorted]_vars

(***************************************************************************)
(* The clearing specification: one detached tag from the factory, the      *)
(* setters that take a string or a list, given empty and non-empty         *)
(* arguments, and renders.                                                 *)
(***************************************************************************)
NextClear ==
    \/ \E m \in AttrMethods : FactoryTag(m)
    \/ \E n \in NodeIds : SetId(n)
    \/ \E n \in NodeIds : SetClass(n)
    \/ \E n \in NodeIds : SetAttributeOrClear(n)
    \/ \E root \in NodeIds : DoWrite(root)
    \/ \E root \in NodeIds : DoWritePretty(root)
    \/ ForgetRender

SpecClear == InitTree /\ [][NextClear]_vars

(***************************************************************************)
(* The select specification: a select under a root, options made by       *)
(* Option() or by the factory and attached with AddChild, the removals,    *)
(* SetSelected, and SelectedOption.  rr holds what the SelectedOption call *)
(* that has just returned was made on and gave back.                       *)
(***************************************************************************)
SelectMethods == {"Select", "Option"}

\* errors.New("not found")
ErrNotFound == "not found"

\* OptionTag.Selected: _, ok := t.attrs[kAttrSelected]
Selected(t) == kAttrSelected \in DOMAIN t.attrs

\* SelectTag.SelectedOption: the first of t.options that is selected, or
\* ErrNotFound.
SelectedOption(ns, id) ==
    LET found == SelectSeq(ns[id].options, LAMBDA o : Selected(ns[o]))
    IN IF Len(found) > 0 THEN [tag |-> found[1], err |-> ""]
       ELSE [tag |-> 0, err |-> ErrNotFound]

DoSelectedOption(n) ==
    /\ Running
    /\ nodes[n].kind = "select"
    /\ rr' = [done |-> TRUE, node |-> n, res |-> SelectedOption(nodes, n)]
    /\ UNCHANGED <<varVars, nodes, creator, crashed>>

NextSelect ==
    \/ NewRoot
    \/ FactoryTag("Option")
    \/ \E p \in NodeIds, m \in SelectMethods : ChildTag(p, m)
    \/ \E p, c \in NodeIds : AddChild(p, c)
    \/ \E p \in NodeIds : RemoveChildren(p)
    \/ \E c \in NodeIds : RemoveParent(c)
    \/ \E n \in NodeIds : SetSelected(n)
    \/ \E n \in NodeIds : DoSelectedOption(n)
    \/ ForgetRender

SpecSelect == InitTree /\ [][NextSelect]_vars

(***************************************************************************)
(* The shared-structure specification: a root and detached nodes from the  *)
(* factory, attached with AddChild, which takes any tag as the child, and  *)
(* with AddChildText, and renders.                                         *)
(***************************************************************************)
NextShared ==
    \/ FactoryNode
    \/ \E p, c \in NodeIds : AddChild(p, c)
    \/ \E p, c \in NodeIds : AddChildText(p, c)
    \/ \E root \in NodeIds : DoWrite(root)
    \/ \E root \in NodeIds : DoWritePretty(root)
    \/ ForgetRender

SpecShared == InitTree /\ [][NextShared]_vars

(***************************************************************************)
(* Event handlers on a body element: two known attributes whose ordinals   *)
(* and names can be compared, with and without a custom attribute.         *)
(***************************************************************************)
ScriptValues == {"", "s"}

\* t.SetOnkeydown(script), of every tag
SetOnkeydown(n) ==
    /\ Running
    /\ n \in TagIds
    /\ \E script \in ScriptValues :
          Mutated(n, Len(script) > 0, setAttr(nodes[n], kAttrOnkeydown, script))

\* t.SetOnload(script), of a BodyTag
SetOnload(n) ==
    /\ Running
    /\ n \in TagIds
    /\ nodes[n].kind = "body"
    /\ \E script \in ScriptValues :
          Mutated(n, Len(script) > 0, setAttr(nodes[n], kAttrOnload, script))

NextHandlers ==
    \/ FactoryTag("Body")
    \/ \E n \in NodeIds : SetOnkeydown(n)
    \/ \E n \in NodeIds : SetOnload(n)
    \/ \E n \in NodeIds : SetId(n)
    \/ \E n \in NodeIds : SetAttribute(n)
    \/ \E root \in NodeIds : DoWrite(root)
    \/ \E root \in NodeIds : DoWritePretty(root)
    \/ ForgetRender

SpecHandlers == InitTree /\ [][NextHandlers]_vars

(***************************************************************************)
(* Custom attributes that carry the name of a known attribute.             *)
(***************************************************************************)
\* The keys passed to SetAttribute: the name of the known attribute id and
\* a name of no known attribute.
NamedKeys == {attrStringMap(kAttrId)} \cup CustomKeys

SetAttributeNamed(n) == SetAttributeAmong(n, NamedKeys, CustomValues)

NextNamed ==
    \/ FactoryTag("Div")
    \/ \E n \in NodeIds : SetId(n)
    \/ \E n \in NodeIds : SetAttributeNamed(n)
    \/ \E root \in NodeIds : DoWrite(root)
    \/ \E root \in NodeIds : DoWritePretty(root)
    \/ ForgetRender

SpecNamed == InitTree /\ [][NextNamed]_vars

(***************************************************************************)
(* The attribute and class mutators on the wrappers made without maps.     *)
(***************************************************************************)
NextWrappers ==
    \/ NewNull
    \/ FactoryTag("Comment")
    \/ \E n \in NodeIds : SetId(n)
    \/ \E n \in NodeIds : SetOnkeydown(n)
    \/ \E n \in NodeIds : SetClass(n)
    \/ \E n \in NodeIds : AddClass(n)
    \/ \E n \in NodeIds : SetAttribute(n)
    \/ \E root \in NodeIds : DoWrite(root)
    \/ \E root \in NodeIds : DoWritePretty(root)
    \/ ForgetRender

SpecWrappers == InitTree /\ [][NextWrappers]_vars

(***************************************************************************)
(* The copy specification: trees grown from a root, their attribute        *)
(* mutators, Copy on tags and text leaves, and the text mutators of a      *)
(* TextTag.  creator records for a copy the node whose Copy made it.       *)
(***************************************************************************)
MaxLeafLen == 2

CopyMethods == {"Div", "Br", "Comment"}

\* The strings handed to SetText, T and TUnsafe of a TextTag.
LeafTexts == {"<"}

\* copyAttrs(attrs): a new map with the entries of attrs.
copyAttrs(attrs) == [k \in DOMAIN attrs |-> attrs[k]]

\* A copy that takes no entry.
copyCustomAttrsEmpty(attrs) == EmptyMap

\* copyCustomAttrs(attrs): a new map with the entries of attrs.
copyCustomAttrs(attrs) == [k \in DOMAIN attrs |-> attrs[k]]

\* &baseTag{tagType, attrs: copyAttrs(..), customAttrs: copyCustomAttrs(..),
\* children: make(..), isCacheClean, cacheOpen} of the source t, whose cache
\* Copy has filled; a singleTag's copy is a singleTag.
TagCopy(t) ==
    [NodeOf(IF t.kind \in {"single", "input"} THEN "single" ELSE "base",
            t.tagType)
        EXCEPT !.attrs = copyAttrs(t.attrs),
               !.customAttrs = copyCustomAttrs(t.customAttrs),
               !.isCacheClean = t.isCacheClean,
               !.cacheOpen = t.cacheOpen]

\* n.Copy() on a tag: commentTag.Copy and nullTag.Copy return an empty tag
\* of their kind; baseTag.Copy and singleTag.Copy fill the source's cache
\* and copy its type, attributes and cache.
CopyTag(n) ==
    /\ Running
    /\ FreeIds # {}
    /\ n \in TagIds
    /\ \E ord \in KeyOrders(nodes) :
          LET kind == nodes[n].kind
              ns1 == IF kind \in {"comment", "null"} THEN nodes
                     ELSE FillCache(nodes, n, ord)
              made == IF kind = "comment" THEN newCommentTag
                      ELSE IF kind = "null" THEN newNullTag
                      ELSE TagCopy(ns1[n])
          IN nodes' = [ns1 EXCEPT ![NextId] = made]
    /\ creator' = [creator EXCEPT ![NextId] = n]
    /\ UNCHANGED <<varVars, crashed, rr>>

\* TextTag.Copy: &TextTag{text: t.text}
CopyText(n) ==
    /\ Running
    /\ FreeIds # {}
    /\ n \in TextIds
    /\ nodes' = [nodes EXCEPT ![NextId] = newTextTag(nodes[n].text)]
    /\ creator' = [creator EXCEPT ![NextId] = n]
    /\ UNCHANGED <<varVars, crashed, rr>>

\* TextTag.SetText: t.text = text
TextSetText(n) ==
    /\ Running
    /\ n \in TextIds
    /\ \E text \in LeafTexts : nodes' = [nodes EXCEPT ![n].text = text]
    /\ UNCHANGED <<varVars, creator, crashed, rr>>

\* TextTag.T: t.text += html.EscapeString(text[0])
TextT(n) ==
    /\ Running
    /\ n \in TextIds
    /\ Len(nodes[n].text) < MaxLeafLen
    /\ \E text \in LeafTexts :
          nodes' = [nodes EXCEPT ![n].text = @ \o EscapeString(text)]
    /\ UNCHANGED <<varVars, creator, crashed, rr>>

\* TextTag.TUnsafe: t.text += text[0]
TextTUnsafe(n) ==
    /\ Running
    /\ n \in TextIds
    /\ Len(nodes[n].text) < MaxLeafLen
    /\ \E text \in LeafTexts : nodes' = [nodes EXCEPT ![n].text = @ \o text]
    /\ UNCHANGED <<varVars, creator, crashed, rr>>

NextCopy ==
    \/ NewRoot
    \/ \E p \in NodeIds, m \in CopyMethods : ChildTag(p, m)
    \/ \E p \in NodeIds : ChildText(p)
    \/ \E n \in NodeIds : Hide(n)
    \/ \E n \in NodeIds : SetClass(n)
    \/ \E n \in NodeIds : SetAttribute(n)
    \/ \E n \in NodeIds : CopyTag(n)
    \/ \E n \in NodeIds : CopyText(n)
    \/ \E n \in NodeIds : TextSetText(n)
    \/ \E n \in NodeIds : TextT(n)
    \/ \E n \in NodeIds : TextTUnsafe(n)

SpecCopy == InitTree /\ [][NextCopy]_vars

(***************************************************************************)
(* The ancestor specification: trees and detached nodes, and Up on a tag   *)
(* or a text leaf.  rr holds what the Up call that has just returned or    *)
(* panicked was given and gave back.  A Tag value is a node identity, 0    *)
(* for the nil interface, or TypedNil for an interface that holds a nil    *)
(* *baseTag.                                                               *)
(***************************************************************************)
MaxUp == 3

TypedNil == 0 - 1

UpCounts == {<<>>} \cup {<<k>> : k \in (0 - 1)..MaxUp}

UpMethods == {"Div", "Br"}

\* t.parent as the Tag that Up starts from: the field of a baseTag is an
\* interface, the field of a TextTag or TextTagVar a *baseTag.
ParentTag(t) ==
    IF t.parent # 0 THEN t.parent
    ELSE IF IsTag(t) THEN 0
    ELSE TypedNil

\* for realCount > 1 { currTag = currTag.Parent(); realCount-- }; return
\* currTag.  Parent() on a nil interface or on a nil *baseTag panics.
RECURSIVE UpFrom(_, _, _)
UpFrom(ns, currTag, realCount) ==
    IF realCount > 1
    THEN IF currTag = 0 \/ currTag = TypedNil
         THEN [panic |-> TRUE, tag |-> 0]
         ELSE UpFrom(ns, ns[currTag].parent, realCount - 1)
    ELSE [panic |-> FALSE, tag |-> currTag]

\* baseTag.Up(count...) and TextTag.Up(count...)
Up(ns, id, count) ==
    UpFrom(ns, ParentTag(ns[id]), IF Len(count) > 0 THEN count[1] ELSE 1)

DoUp(n) ==
    /\ Running
    /\ nodes[n].kind \in TagKinds \cup {"text"}
    /\ \E count \in UpCounts :
          LET res == Up(nodes, n, count)
          IN /\ rr' = [done |-> TRUE, node |-> n, count |-> count,
                       res |-> res]
             /\ crashed' = res.panic
    /\ UNCHANGED <<varVars, nodes, creator>>

NextUp ==
    \/ NewRoot
    \/ FactoryNode
    \/ \E p \in NodeIds, m \in UpMethods : ChildTag(p, m)
    \/ \E p \in NodeIds : ChildText(p)
    \/ \E n \in NodeIds : DoUp(n)
    \/ ForgetRender

SpecUp == InitTree /\ [][NextUp]_vars

(***************************************************************************)
(* Properties of the variable text leaf.                                   *)
(***************************************************************************)
\* The tag is as NewTextTagVar built it: its spans are those of its text.
Built == ttv.vars = parseVars(ttv.text)

Returned == wr.done /\ ~wr.res.panic

\* The expansion of a text read character by character, without spans: a
\* character other than '$' stands for itself; "$$" stands for '$'; any
\* other '$' stands, together with the longest identifier that follows it
\* (possibly none), for the value of that name.
RECURSIVE Expansion(_, _, _)
Expansion(text, env, isUnsafe) ==
    IF Len(text) = 0 THEN ""
    ELSE IF CharAt(text, 1) # "$"
    THEN (IF isUnsafe THEN CharAt(text, 1)
          ELSE EscapeString(CharAt(text, 1)))
             \o Expansion(SliceFrom(text, 1), env, isUnsafe)
    ELSE IF Len(text) >= 2 /\ CharAt(text, 2) = "$"
    THEN "$" \o Expansion(SliceFrom(text, 2), env, isUnsafe)
    ELSE LET k == IF Len(text) >= 2 /\ IsIdentStart(CharAt(text, 2))
                  THEN IdentRunLen(text, 2) ELSE 0
             name == Slice(text, 1, 1 + k)
             value == IF name \in DOMAIN env THEN env[name] ELSE "undefined"
         IN (IF isUnsafe THEN value ELSE EscapeString(value))
                \o Expansion(SliceFrom(text, 1 + k), env, isUnsafe)

SpanEnd(t, i) == IF i = 0 THEN 0 ELSE t.vars[i].startOffset + t.vars[i].length

SpanText(t, i) == Slice(t.text, t.vars[i].startOffset, SpanEnd(t, i))

\* The unescaped content of write call number j: calls 2i-1 and 2i carry the
\* literal before span i and the value of span i, the last call carries the
\* suffix.
RawPiece(t, env, j) ==
    IF j = 2 * Len(t.vars) + 1 THEN SliceFrom(t.text, SpanEnd(t, Len(t.vars)))
    ELSE IF j % 2 = 1
    THEN Slice(t.text, SpanEnd(t, (j - 1) \div 2), t.vars[(j + 1) \div 2].startOffset)
    ELSE LET name == SliceFrom(SpanText(t, j \div 2), 1)
         IN IF name \in DOMAIN env THEN env[name] ELSE "undefined"

IsDollarPiece(t, j) ==
    /\ j % 2 = 0
    /\ j <= 2 * Len(t.vars)
    /\ SpanText(t, j \div 2) = "$$"

\* C2: with the unsafe flag off, every literal segment and every value is
\* written HTML-escaped exactly once and the '$' of a "$$" unescaped; with
\* the flag on, literal text and values are written verbatim.
C2_EscapeOnce ==
    (Returned /\ Built)
        => \A j \in 1..Len(wr.res.w.log) :
              wr.res.w.log[j].s =
                  IF IsDollarPiece(ttv, j) THEN "$"
                  ELSE IF ttv.isUnsafe THEN RawPiece(ttv, EnvOf(wenv), j)
                  ELSE EscapeString(RawPiece(ttv, EnvOf(wenv), j))

C2_Witness ==
    /\ Returned
    /\ ~ttv.isUnsafe
    /\ ttv.text = "<$name>"
    /\ [j \in 1..Len(wr.res.w.log) |-> wr.res.w.log[j].s]
           = <<"&lt;", "foo&amp;bar", "&gt;">>

\* The 1-based positions of text that span v covers.
Covered(v) == (v.startOffset + 1)..(v.startOffset + v.length)

\* v is the span that a '$' at its offset starts: the '$', then one '$' or
\* the longest identifier, or nothing when neither follows.
IsSpanAt(text, v) ==
    LET p == v.startOffset + 1
        k == v.length - 1
    IN /\ p \in 1..Len(text)
       /\ CharAt(text, p) = "$"
       /\ k >= 0
       /\ p + k <= Len(text)
       /\ IF p < Len(text) /\ CharAt(text, p + 1) = "$" THEN k = 1
          ELSE /\ \A q \in (p + 1)..(p + k) : IsIdentChar(CharAt(text, q))
               /\ k > 0 => IsIdentStart(CharAt(text, p + 1))
               /\ k = 0 => (p = Len(text) \/ ~IsIdentStart(CharAt(text, p + 1)))
               /\ k > 0 => (p + k = Len(text)
                               \/ ~IsIdentChar(CharAt(text, p + k + 1)))

IsScanOf(text, spans) ==
    /\ \A i \in 1..Len(spans) : IsSpanAt(text, spans[i])
    /\ \A i \in 1..(Len(spans) - 1) :
          spans[i].startOffset + spans[i].length <= spans[i + 1].startOffset
    /\ \A p \in 1..Len(text) :
          CharAt(text, p) = "$" => \E i \in 1..Len(spans) : p \in Covered(spans[i])

RenderReturned == rr.done /\ ~rr.res.panic /\ ~rr.res.overflow

\* Some node of the chain of running write methods was hidden when the
\* render call began.
HiddenIn(ns, stack) == \E i \in 1..Len(stack) : ns[stack[i]].hidden

\* C4: after Hide(true) on a node of any kind, Write and WritePretty emit
\* zero bytes for that node and for all of its descendants, whether the
\* node is the root of the render call or a child in the rendered tree:
\* every write made while a hidden node's write method is running is empty.
C4_HiddenEmitsNothing ==
    rr.done =>
        \A j \in 1..Len(rr.res.w.log) :
            HiddenIn(rr.before, rr.res.w.log[j].stack)
                => rr.res.w.log[j].s = ""

\* C8: the count a render call returns equals the number of bytes the sink
\* accepted during the call, on success and on a write failure alike.
C8_CountIsBytesAccepted ==
    RenderReturned => rr.res.n = Len(rr.res.w.out)

\* C9: when a write to the sink fails during Write or WritePretty, the
\* render call returns the error of that first failing write and makes no
\* further write to the sink; when no write fails it returns no error.
C9_FirstErrorStops ==
    RenderReturned =>
        /\ rr.res.w.late = 0
        /\ rr.res.err = IF rr.res.w.failed THEN rr.sink.failAt ELSE 0

\* A pretty render failed on a write made by a node at the deepest level
\* of the tree.
C9_Witness ==
    /\ RenderReturned
    /\ rr.res.w.failed
    /\ rr.res.err = rr.sink.failAt
    /\ Len(rr.res.w.log) = rr.sink.failAt
    /\ Len(rr.res.w.log[Len(rr.res.w.log)].stack) = MaxNodes
    /\ rr.pretty

\* A node without its open-tag cache.
Uncached(t) == [t EXCEPT !.isCacheClean = FALSE, !.cacheOpen = ""]

\* The nodes with the open tag of every tag that writes one built from its
\* current attributes.
Rebuilt(ns, ord) ==
    [id \in NodeIds |->
        IF IsTag(ns[id]) /\ ns[id].kind \notin {"comment", "null"}
        THEN [ns[id] EXCEPT !.isCacheClean = TRUE,
                            !.cacheOpen = renderCacheOpen(ns[id], ord)]
        ELSE ns[id]]

WorkingSink == NewSink(0, 0)

\* C10: a render call, successful or failed, changes nothing of any node
\* but its open-tag cache, and WritePretty changes nothing at all; a later
\* render of the same tree to a working sink succeeds and emits the
\* complete document, the one built from the attributes the tree had.
C10_RenderReadsOnly ==
    rr.done =>
        /\ \A id \in NodeIds : Uncached(nodes[id]) = Uncached(rr.before[id])
        /\ rr.pretty => nodes = rr.before
        /\ \A ord \in KeyOrders(nodes) :
              LET again == Write(nodes, WorkingSink, rr.root, rr.optEnv, ord)
                  whole == Write(Rebuilt(rr.before, ord), WorkingSink,
                                 rr.root, rr.optEnv, ord)
              IN /\ ~Stopped(again)
                 /\ again.w.out = whole.w.out
        /\ \A ord \in KeyOrders(nodes) :
              LET again == WritePretty(nodes, WorkingSink, rr.root, rr.optEnv,
                                       ord)
                  whole == WritePretty(rr.before, WorkingSink, rr.root,
                                       rr.optEnv, ord)
              IN /\ ~Stopped(again)
                 /\ again.w.out = whole.w.out

\* A compact render failed below the root after filling a cache.
C10_Witness ==
    /\ RenderReturned
    /\ ~rr.pretty
    /\ rr.res.w.failed
    /\ nodes # rr.before
    /\ \E id \in NodeIds : nodes[id].parent # 0 /\ nodes[id].isCacheClean

(***************************************************************************)
(* Properties of the tree structure.                                       *)
(***************************************************************************)
\* The children without c, in their order.
Without(children, c) == SelectSeq(children, LAMBDA e : e # c)

\* C6: for a node c created as a child of p by a child-creating method of
\* p and still among p's children, c.RemoveParent() returns, leaves p's
\* children equal to the previous sequence with c removed and the order of
\* the rest preserved (so that p's output no longer holds c), and sets c's
\* parent to nil.
C6_RemoveParentDetaches ==
    [][\A c \in NodeIds :
          (/\ RemoveParent(c)
           /\ creator[c] # 0
           /\ c \in Range(nodes[creator[c]].children))
          => /\ ~crashed'
             /\ nodes'[creator[c]].children =
                    Without(nodes[creator[c]].children, c)
             /\ nodes'[c].parent = 0]_vars

\* C7: after any sequence of tree operations, c is an element of p's
\* children if and only if c's parent is p, so that c's parent is nil when
\* no node holds c.
C7_ParentIsHolder ==
    \A c, p \in NodeIds :
        (nodes[c].kind # "none" /\ IsTag(nodes[p]))
            => (c \in Range(nodes[p].children) <=> nodes[c].parent = p)

(***************************************************************************)
(* Properties of the open-tag cache.                                       *)
(***************************************************************************)
\* C5: after any interleaving of attribute and class mutators and compact
\* renders, a node whose cache is marked clean holds the open tag that
\* would be built from its current attributes, in some order of the keys.
C5_CleanCacheIsCurrent ==
    \A id \in TagIds :
        nodes[id].isCacheClean =>
            \E ord \in KeyOrders(nodes) :
                nodes[id].cacheOpen = renderCacheOpen(nodes[id], ord)

(***************************************************************************)
(* Properties of Copy.                                                     *)
(***************************************************************************)
\* c was made by Copy: a method of creator[c] made it and did not attach it.
IsCopy(c) == creator[c] # 0 /\ c \notin Range(nodes[creator[c]].children)

\* What node n renders to a working sink: the compact outputs, one for each
\* order the maps may be ranged in, and the pretty outputs likewise.
Outputs(ns, n) ==
    [compact |-> {Write(ns, WorkingSink, n, optEnv, ord).w.out :
                     optEnv \in TreeOptEnvs, ord \in KeyOrders(ns)},
     pretty |-> {WritePretty(ns, WorkingSink, n, optEnv, ord).w.out :
                     optEnv \in TreeOptEnvs, ord \in KeyOrders(ns)}]

C12_CopyTakesAttributesOnly ==
    [][\A n \in NodeIds :
          (CopyTag(n) /\ nodes[n].kind \notin {"comment", "null"})
            => LET c == NextId
               IN /\ IsTag(nodes'[c])
                  /\ nodes'[c].tagType = nodes[n].tagType
                  /\ nodes'[c].attrs = nodes[n].attrs
                  /\ nodes'[c].customAttrs = nodes[n].customAttrs
                  /\ nodes'[c].children = <<>>
                  /\ nodes'[c].parent = 0
                  /\ nodes'[c].hidden = FALSE
                  /\ nodes'[n].isCacheClean
                  /\ nodes'[c].cacheOpen = nodes'[n].cacheOpen]_vars

\* A copy of a hidden tag that has a child and attributes of both sorts.
C12_Witness ==
    \E c \in TagIds :
        /\ IsCopy(c)
        /\ nodes[creator[c]].hidden
        /\ nodes[creator[c]].children # <<>>
        /\ nodes[creator[c]].attrs # EmptyMap
        /\ nodes[creator[c]].customAttrs # EmptyMap
        /\ nodes[c].attrs = nodes[creator[c]].attrs
        /\ nodes[c].customAttrs = nodes[creator[c]].customAttrs
        /\ nodes[c].cacheOpen = nodes[creator[c]].cacheOpen
        /\ ~nodes[c].hidden

(***************************************************************************)
(* Properties of Up.                                                       *)
(***************************************************************************)
\* The node k parent links up from id, or 0 when there are fewer links.
RECURSIVE Ancestor(_, _, _)
Ancestor(ns, id, k) ==
    IF id = 0 \/ k = 0 THEN id ELSE Ancestor(ns, ns[id].parent, k - 1)

\* C13: Up(n) on a node or text leaf returns the ancestor n parent links
\* up, with n taken as 1 when it is absent or less than 1, and returns nil
\* without failing whenever the node has fewer than n ancestors.
C13_UpReturnsAncestorOrNil ==
    rr.done =>
        LET asked == IF Len(rr.count) > 0 THEN rr.count[1] ELSE 1
            k == IF asked < 1 THEN 1 ELSE asked
        IN /\ ~rr.res.panic
           /\ rr.res.tag = Ancestor(nodes, rr.node, k)

(***************************************************************************)
(* Properties of self-closing tags.                                        *)
(***************************************************************************)
\* C14: the child sequence of a self-closing node stays empty whatever
\* operations are applied to it: AddChild, AddChildText and the
\* child-creating methods are no-ops on it or are rejected.
C14_SingleTagStaysChildless ==
    \A n \in NodeIds :
        nodes[n].kind \in {"single", "input"} => nodes[n].children = <<>>

(***************************************************************************)
(* Properties of the compact format.                                       *)
(***************************************************************************)
\* The nodes of the tree under id.
RECURSIVE Subtree(_, _)
Subtree(ns, id) ==
    {id} \cup UNION {Subtree(ns, ns[id].children[i]) :
                        i \in 1..Len(ns[id].children)}

AllVisible(ns, id) == \A n \in Subtree(ns, id) : ~ns[n].hidden

\* The document of the compact format for the tree under id, its
\* attributes in the order ord.
RECURSIVE CompactDoc(_, _, _, _)
CompactDoc(ns, id, env, ord) ==
    LET t == ns[id]
        name == tagTypeStringMap(t.tagType)
        ks == RangeKeys(t.attrs, ord.attrs)
        cs == RangeKeys(t.customAttrs, ord.custom)
        attributes ==
            Concat([i \in 1..Len(ks) |->
                       " " \o attrStringMap(ks[i]) \o "=\""
                           \o t.attrs[ks[i]] \o "\""])
            \o Concat([i \in 1..Len(cs) |->
                          " " \o cs[i] \o "=\"" \o t.customAttrs[cs[i]] \o "\""])
        inner == Concat([i \in 1..Len(t.children) |->
                            CompactDoc(ns, t.children[i], env, ord)])
        element == "<" \o name \o attributes \o ">" \o inner
                       \o "</" \o name \o ">"
    IN CASE t.kind = "text" -> t.text
         [] t.kind = "textvar" -> Expansion(t.text, env, t.isUnsafe)
         [] t.kind \in {"single", "input"} ->
              "<" \o name \o attributes \o " />"
         [] t.kind = "comment" -> "<!-- " \o inner \o " -->"
         [] t.kind = "html" -> "<!DOCTYPE html>" \o element
         [] OTHER -> element

\* The program of the README: a root with a body that holds an h1 with a
\* text and a p with a variable text.
ExampleNodes ==
    <<[newHtmlTag EXCEPT !.children = <<2>>],
      [NodeOf("body", kTagTypeBody) EXCEPT !.children = <<3, 5>>],
      [newBaseTag(kTagTypeH1) EXCEPT !.children = <<4>>, !.parent = 2],
      [htmlGenT(<<"Hello, world!">>) EXCEPT !.parent = 3],
      [newBaseTag(kTagTypeP) EXCEPT !.children = <<6>>, !.parent = 2],
      [htmlGenTV(<<"How are you, $firstName $lastName?">>)
          EXCEPT !.parent = 5]>>

ExampleEnv ==
    [k \in {"firstName", "lastName"} |->
        IF k = "firstName" THEN "John" ELSE "Doe"]

ExampleOutput ==
    Write(ExampleNodes, NewSink(0, 0), 1, <<ExampleEnv>>,
          CHOOSE ord \in KeyOrders(ExampleNodes) : TRUE).w.out

\* C15: Write of a tree of visible nodes emits, for an element, '<name',
\* one ' key="value"' per attribute, '>', the compact rendering of each
\* child in order and '</name>'; for a self-closing node '<name', its
\* attributes and ' />'; for the root wrapper '<!DOCTYPE html>' before its
\* element; for the comment wrapper '<!-- ', its children and ' -->'; and
\* the program of the README renders the document the README shows.
C15_CompactFormat ==
    /\ ExampleOutput = "<!DOCTYPE html><html><body><h1>Hello, world!</h1>"
                           \o "<p>How are you, John Doe?</p></body></html>"
    /\ (/\ RenderReturned
        /\ ~rr.pretty
        /\ rr.sink = NewSink(0, 0)
        /\ rr.before[rr.root].kind # "null"
        /\ AllVisible(rr.before, rr.root))
           => /\ rr.res.err = 0
              /\ \E ord \in KeyOrders(rr.before) :
                    rr.res.w.out
                        = CompactDoc(rr.before, rr.root, EnvOf(rr.optEnv), ord)

\* A compact render of a root that holds a div that holds a self-closing
\* tag with an attribute.
C15_Witness ==
    /\ RenderReturned
    /\ ~rr.pretty
    /\ rr.sink = NewSink(0, 0)
    /\ AllVisible(rr.before, rr.root)
    /\ rr.res.w.out = "<!DOCTYPE html><html><div><br id=\"x\" /></div></html>"

(***************************************************************************)
(* Properties of the pretty format.                                        *)
(***************************************************************************)
\* The tree under id holds elements, self-closing tags and text leaves
\* under at most a root wrapper.
OnlyElements(ns, id) ==
    \A n \in Subtree(ns, id) : ns[n].kind \notin {"comment", "null"}

\* The document of the pretty format for the tree under id at indent
\* level indent, the attributes of a node in increasing order of name.
RECURSIVE PrettyDoc(_, _, _, _)
PrettyDoc(ns, id, indent, env) ==
    LET t == ns[id]
        name == tagTypeStringMap(t.tagType)
        names == {attrStringMap(k) : k \in DOMAIN t.attrs}
                     \cup DOMAIN t.customAttrs
        valueOf(a) ==
            IF a \in DOMAIN t.customAttrs THEN t.customAttrs[a]
            ELSE t.attrs[CHOOSE k \in DOMAIN t.attrs : attrStringMap(k) = a]
        sorted == CHOOSE q \in Perms(names) :
                      \A i, j \in 1..Len(q) : i < j => StringLess(q[i], q[j])
        attributes ==
            Concat([i \in 1..Len(sorted) |->
                       " " \o sorted[i] \o "=\"" \o valueOf(sorted[i]) \o "\""])
        inner == Concat([i \in 1..Len(t.children) |->
                            "\n" \o PrettyDoc(ns, t.children[i],
                                              indent + kIndentSpace, env)])
        element == Spaces(indent) \o "<" \o name \o attributes \o ">"
                       \o inner
                       \o (IF Len(t.children) > 0
                           THEN "\n" \o Spaces(indent) ELSE "")
                       \o "</" \o name \o ">"
    IN CASE t.kind = "text" -> Spaces(indent) \o t.text
         [] t.kind = "textvar" ->
              Spaces(indent) \o Expansion(t.text, env, t.isUnsafe)
         [] t.kind \in {"single", "input"} ->
              Spaces(indent) \o "<" \o name \o attributes \o " />"
         [] t.kind = "html" ->
              Spaces(indent) \o "<!DOCTYPE html>\n" \o element
         [] OTHER -> element

\* C16: WritePretty of a tree of visible elements and text leaves emits
\* each element after as many spaces as its indent level, each child on a
\* new line at the parent's indent plus 2, a newline and the element's own
\* indentation before the closing tag of an element with at least one
\* child, nothing between the open and the closing tag of an element
\* without children, a text leaf as its indentation and its text, and for
\* the root wrapper first the indented '<!DOCTYPE html>' line.
C16_PrettyFormat ==
    (/\ RenderReturned
     /\ rr.pretty
     /\ rr.sink = NewSink(0, 0)
     /\ OnlyElements(rr.before, rr.root)
     /\ AllVisible(rr.before, rr.root))
        => /\ rr.res.err = 0
           /\ rr.res.w.out
                  = PrettyDoc(rr.before, rr.root, 0, EnvOf(rr.optEnv))

\* A pretty render of a root that holds a div with an attribute that holds
\* a text leaf.
C16_Witness ==
    /\ RenderReturned
    /\ rr.pretty
    /\ rr.sink = NewSink(0, 0)
    /\ AllVisible(rr.before, rr.root)
    /\ rr.res.w.out = "<!DOCTYPE html>\n<html>\n  <div id=\"x\">\n"
                          \o "    a&lt;\n  </div>\n</html>"

\* The nodes with every hidden child taken out of its parent's children.
Pruned(ns) ==
    [id \in DOMAIN ns |->
        [ns[id] EXCEPT !.children =
            SelectSeq(@, LAMBDA c : ~ns[c].hidden)]]

\* C17: in WritePretty a hidden child contributes no newline, indentation
\* or blank line to its parent's output: the pretty output of a visible
\* element, comment wrapper or null wrapper is byte-identical to the output
\* of the same tree with the hidden children removed.
C17_HiddenChildLeavesNoTrace ==
    (/\ RenderReturned
     /\ rr.pretty
     /\ rr.sink = NewSink(0, 0)
     /\ ~rr.before[rr.root].hidden)
        => \A ord \in KeyOrders(rr.before) :
               rr.res.w.out
                   = WritePretty(Pruned(rr.before), NewSink(0, 0), rr.root,
                                 rr.optEnv, ord).w.out

(***************************************************************************)
(* Properties of the sorted open tag.                                      *)
(***************************************************************************)
\* C18: a WritePretty call that follows another with the same environment
\* and no mutation in between produces the bytes the first produced, in
\* whatever order the attribute maps are ranged over: the pretty open tag
\* depends only on the known and custom attributes the node holds.
C18_PrettyIsDeterministic ==
    (RenderReturned /\ rr.pretty /\ rr.sink = NewSink(0, 0))
        => \A ord \in KeyOrders(nodes) :
               WritePretty(nodes, NewSink(0, 0), rr.root, rr.optEnv, ord).w.out
                   = rr.res.w.out

\* A pretty render of a tag with three known attributes, whose map can be
\* ranged over in six orders.
C18_Witness ==
    /\ RenderReturned
    /\ rr.pretty
    /\ rr.sink = NewSink(0, 0)
    /\ Cardinality(DOMAIN nodes[rr.root].attrs) = 3
    /\ Cardinality(KeyOrders(nodes)) = 6

(***************************************************************************)
(* Properties of the text leaf.                                            *)
(***************************************************************************)
\* What text leaf n renders to a working sink.
LeafOutput(ns, n) ==
    Write(ns, NewSink(0, 0), n, <<>>,
          CHOOSE ord \in KeyOrders(ns) : TRUE).w.out

\* C19: every fragment a text leaf is given by T at creation, by a chained
\* T or by SetText appears HTML-escaped exactly once in what the leaf
\* renders, a fragment given by TUnsafe appears verbatim, and rendering
\* escapes nothing further: SetText leaves the leaf rendering the escaped
\* text, T the former output followed by the escaped text, TUnsafe the
\* former output followed by the text.
C19_TextFragmentsEscapedOnce ==
    [][\A n \in NodeIds :
          /\ TextSetText(n)
                => \E text \in LeafTexts :
                      LeafOutput(nodes', n) = EscapeString(text)
          /\ TextT(n)
                => \E text \in LeafTexts :
                      LeafOutput(nodes', n)
                          = LeafOutput(nodes, n) \o EscapeString(text)
          /\ TextTUnsafe(n)
                => \E text \in LeafTexts :
                      LeafOutput(nodes', n) = LeafOutput(nodes, n) \o text
          /\ (\E p \in NodeIds : ChildText(p) /\ NextId = n)
                /\ nodes'[n].kind = "text"
                => \E text \in TArgs :
                      LeafOutput(nodes', n) = EscapeString(text[1])]_vars

(***************************************************************************)
(* Properties of the class attribute.                                      *)
(***************************************************************************)
\* The classes of a list, each after the one before it and one space.
RECURSIVE SpaceJoined(_)
SpaceJoined(classes) ==
    IF Len(classes) = 0 THEN ""
    ELSE IF Len(classes) = 1 THEN classes[1]
    ELSE SpaceJoined(SubSeq(classes, 1, Len(classes) - 1))
             \o " " \o classes[Len(classes)]

\* Node t after its attrs take the value v for class, or lose class when
\* absent, and its open tag is due to be rebuilt.
WithClass(t, absent, v) ==
    [t EXCEPT !.attrs = [k \in (IF absent THEN DOMAIN @ \ {kAttrClass}
                                ELSE DOMAIN @ \cup {kAttrClass}) |->
                            IF k = kAttrClass THEN v ELSE @[k]],
              !.isCacheClean = FALSE]

\* C20: AddClass and AddClasses append the given classes, space-joined, to
\* the value of the class attribute, after one space when that value is
\* not empty, and change nothing for an empty list; SetClass and SetClasses
\* replace the value by the space-joined list and for an empty list remove
\* the class attribute, so that the open tag built next has no class.
C20_ClassSemantics ==
    [][\A n \in NodeIds :
          /\ AddClass(n)
                => \E classes \in ClassArgs :
                      LET old == IF kAttrClass \in DOMAIN nodes[n].attrs
                                 THEN nodes[n].attrs[kAttrClass] ELSE ""
                      IN nodes'[n] =
                            IF Len(classes) = 0 THEN nodes[n]
                            ELSE WithClass(nodes[n], FALSE,
                                     IF old = "" THEN SpaceJoined(classes)
                                     ELSE old \o " " \o SpaceJoined(classes))
          /\ SetClass(n)
                => \E classes \in ClassArgs :
                      nodes'[n] =
                          IF Len(classes) = 0
                          THEN WithClass(nodes[n], TRUE, "")
                          ELSE WithClass(nodes[n], FALSE,
                                         SpaceJoined(classes))]_vars

\* A list of two classes has been added to a node that had two, and a
\* render shows the four.
C20_Witness ==
    /\ RenderReturned
    /\ rr.res.w.out = "<div class=\"c d c d\"></div>"

(***************************************************************************)
(* Properties of the setters given an empty argument.                      *)
(***************************************************************************)
\* Map m without those of the keys ks that hold the empty string.
NonEmptyEntries(m, ks) ==
    [k \in {x \in DOMAIN m : x \notin ks \/ m[x] # ""} |-> m[k]]

\* The nodes with node n rid of the known attributes ks and the custom
\* attributes cs that hold the empty string.
Cleared(ns, n, ks, cs) ==
    [ns EXCEPT ![n].attrs = NonEmptyEntries(@, ks),
               ![n].customAttrs = NonEmptyEntries(@, cs)]

\* C21: SetId, SetClass and SetAttribute given an empty string or an empty
\* list clear the attribute: after a step of one of these setters the
\* attribute it sets is absent from the node or holds a non-empty value,
\* and the node renders as it would without an empty value for it.
C21_EmptyArgumentClears ==
    [][\A n \in NodeIds :
          /\ SetId(n) /\ ~crashed'
                => Cleared(nodes', n, {kAttrId}, {}) = nodes'
          /\ SetClass(n) /\ ~crashed'
                => Cleared(nodes', n, {kAttrClass}, {}) = nodes'
          /\ SetAttributeOrClear(n) /\ ~crashed'
                => /\ Cleared(nodes', n, {}, CustomKeys) = nodes'
                   /\ Outputs(nodes', n)
                          = Outputs(Cleared(nodes', n, {}, CustomKeys), n)]_vars

(***************************************************************************)
(* Properties of SelectedOption.                                           *)
(***************************************************************************)
\* The option children of select id that are selected, in document order.
SelectedChildren(ns, id) ==
    SelectSeq(ns[id].children,
              LAMBDA c : /\ ns[c].kind = "option"
                         /\ kAttrSelected \in DOMAIN ns[c].attrs)

\* C22: SelectedOption returns the first of the select's current option
\* children, in document order, whose selected attribute is set, and
\* ErrNotFound exactly when no current option child is selected, whether
\* the children were added by Option or AddChild or removed by
\* RemoveChildren or RemoveParent.
C22_SelectedOptionTracksChildren ==
    rr.done =>
        LET found == SelectedChildren(nodes, rr.node)
        IN IF Len(found) > 0
           THEN rr.res.tag = found[1] /\ rr.res.err = ""
           ELSE rr.res.err = ErrNotFound

(***************************************************************************)
(* Properties of a stray '$'.                                              *)
(***************************************************************************)
\* The text without every '$' that neither follows a '$' it pairs with nor
\* is followed by a '$' or by the first character of an identifier.
RECURSIVE WithoutStray(_)
WithoutStray(text) ==
    IF Len(text) = 0 THEN ""
    ELSE IF CharAt(text, 1) # "$"
    THEN CharAt(text, 1) \o WithoutStray(SliceFrom(text, 1))
    ELSE IF Len(text) >= 2 /\ CharAt(text, 2) = "$"
    THEN "$$" \o WithoutStray(SliceFrom(text, 2))
    ELSE IF Len(text) >= 2 /\ IsIdentStart(CharAt(text, 2))
    THEN "$" \o WithoutStray(SliceFrom(text, 1))
    ELSE WithoutStray(SliceFrom(text, 1))

\* C23: a '$' that is followed neither by another '$' nor by an identifier
\* is deleted at render time: a write that succeeds emits what it would
\* emit for the text without its stray '$' characters.
C23_StrayDollarDeleted ==
    (Returned /\ Built /\ wr.res.err = 0)
        => wr.res.w.out
               = Expansion(WithoutStray(ttv.text), EnvOf(wenv), ttv.isUnsafe)

(***************************************************************************)
(* Properties of the spans of a variable text.                             *)
(***************************************************************************)
\* C24: after any sequence of NewTextTagVar, SetText, appending TV and
\* SetUnsafe the spans of a variable text are those of its current text,
\* every span lies within the text, and no write indexes outside the text.
C24_VarsFollowText ==
    /\ Built
    /\ \A i \in 1..Len(ttv.vars) : SpanEnd(ttv, i) <= Len(ttv.text)
    /\ wr.done => ~wr.res.panic

(***************************************************************************)
(* Properties of the copy of a node without children.                      *)
(***************************************************************************)
\* C25: for a visible node without children, of whatever kind, WritePretty
\* of the node's copy emits the bytes that WritePretty of the node emits.
C25_CopyRendersAlike ==
    [][\A n \in NodeIds :
          LET c == NextId
          IN (/\ CopyTag(n)
              /\ ~nodes[n].hidden
              /\ nodes[n].children = <<>>)
                 => Outputs(nodes', c).pretty = Outputs(nodes', n).pretty]_vars

(***************************************************************************)
(* Properties of renders of shared structures.                             *)
(***************************************************************************)
\* The nodes reached from id by one or more child links.
\* C26: Write and WritePretty terminate, with a byte count or a failure,
\* on every structure the construction and mutation methods can build,
\* those built with AddChild included: no render call exhausts the stack.
C26_RenderTerminates == rr.done => ~rr.res.overflow

(***************************************************************************)
(* Properties of the order of the attributes in a pretty open tag.         *)
(***************************************************************************)
\* The position of the first occurrence of sub in s from i on, 0 when
\* there is none.
RECURSIVE IndexFrom(_, _, _)
IndexFrom(s, sub, i) ==
    IF i + Len(sub) - 1 > Len(s) THEN 0
    ELSE IF SubSeq(s, i, i + Len(sub) - 1) = sub THEN i
    ELSE IndexFrom(s, sub, i + 1)

\* The pairs of known attributes of t that out writes in this order.
KnownPrecedence(out, t) ==
    LET at(k) == IndexFrom(out, " " \o attrStringMap(k) \o "=", 1)
    IN {<<a, b>> \in (DOMAIN t.attrs) \X (DOMAIN t.attrs) : at(a) < at(b)}

\* C27: WritePretty writes the known attributes of a node in the same
\* relative order whether or not the node has custom attributes: the order
\* by ordinal and the order by name agree on every pair.
C27_KnownOrderIgnoresCustom ==
    (rr.done /\ rr.pretty /\ rr.sink = WorkingSink /\ ~Stopped(rr.res)) =>
        LET t == rr.before[rr.root]
            bare == [rr.before EXCEPT ![rr.root].customAttrs = EmptyMap]
        IN \A out \in Outputs(bare, rr.root).pretty :
              KnownPrecedence(rr.res.w.out, t) = KnownPrecedence(out, t)

(***************************************************************************)
(* Properties of the attribute pairs of the two renderings.                *)
(***************************************************************************)
\* The pieces of s between single spaces.
RECURSIVE Fields(_)
Fields(s) ==
    LET i == IndexFrom(s, " ", 1)
    IN IF i = 0 THEN <<s>>
       ELSE <<SubSeq(s, 1, i - 1)>> \o Fields(SubSeq(s, i + 1, Len(s)))

\* The name="value" pairs of the first open tag of out, each with the
\* number of times it is written.
AttrPairs(out) ==
    LET f == Fields(SubSeq(out, 1, IndexFrom(out, ">", 1) - 1))
        pairs == Tail(f)
    IN [p \in Range(pairs) |->
           Cardinality({i \in 1..Len(pairs) : pairs[i] = p})]

\* C28: Write and WritePretty write the same attribute pairs, each as many
\* times, in the open tag of a node, also when a custom attribute carries
\* the name of a known attribute of the node.
C28_SamePairsInBothRenderings ==
    (rr.done /\ rr.sink = WorkingSink /\ ~Stopped(rr.res)) =>
        LET outs == Outputs(rr.before, rr.root)
        IN \A out \in (IF rr.pretty THEN outs.compact ELSE outs.pretty) :
              AttrPairs(out) = AttrPairs(rr.res.w.out)

(***************************************************************************)
(* Properties of the mutators on nodes that lack what they work on.        *)
(***************************************************************************)
\* C29: RemoveParent on a node without a parent reference returns without
\* failing and leaves the child sequence of every node as it was.
C29_RemoveParentOfDetached ==
    [][\A c \in NodeIds :
          (RemoveParent(c) /\ nodes[c].parent = 0) =>
              /\ ~crashed'
              /\ \A n \in NodeIds : nodes'[n].children = nodes[n].children]_vars

\* C30: every attribute or class mutator completes without failing on
\* every kind of node, the comment wrapper and the null wrapper included.
C30_MutatorsCompleteOnWrappers ==
    [][\A n \in NodeIds :
          (\/ SetId(n)
           \/ SetOnkeydown(n)
           \/ SetClass(n)
           \/ AddClass(n)
           \/ SetAttribute(n)) => ~crashed']_vars
====
